---- MODULE Spec2Model ----
(***************************************************************************)
(* A model of wiktextract's English thesaurus extractor,                   *)
(* src/wiktextract/extractor/en/thesaurus.py: extract_thesaurus_page and   *)
(* its nested walk recurse; and of the Spanish page walker,                *)
(* src/wiktextract/extractor/es/page.py: parse_page, parse_entries and     *)
(* parse_section.                                                          *)
(*                                                                         *)
(* Text is modelled character by character: a Python str is a sequence of  *)
(* one-character strings.  Code points that a TLA+ string literal cannot   *)
(* hold are written as one-element tokens: "EMDASH" (U+2014), "LDQUO"      *)
(* (U+201C), "RARROW" (U+21D2), "IACUTE" (U+00ED) and "OACUTE" (U+00F3).   *)
(* Python's None is NoneStr where a str is expected.  The values of the    *)
(* vocabulary tables (relation types, parts of speech, language codes) and *)
(* the texts the Spanish walker only copies are never taken apart by the   *)
(* code and are TLA+ strings.                                              *)
(***************************************************************************)
EXTENDS Integers, Sequences, FiniteSets, TLC

\* ------------------------------------------------------------------ text

\* Python's None where the code holds Optional[str] text.
NoneStr == <<"<None>">>

\* None for the table-valued context fields (pos, linkage, language_code).
NoneVal == "<None>"

\* \s of the re module, over the characters the pages of the model use.
IsSpace(c) == c \in {" ", "\n", "\t"}

\* \w of the re module.
IsWordChar(c) ==
    c \in {"a","b","c","d","e","f","g","h","i","j","k","l","m","n","o","p","q",
           "r","s","t","u","v","w","x","y","z","A","B","C","D","E","F","G","H",
           "I","J","K","L","M","N","O","P","Q","R","S","T","U","V","W","X","Y",
           "Z","0","1","2","3","4","5","6","7","8","9","_"}

\* str.lower() on one character.
LowerChar(c) ==
    CASE c = "A" -> "a" [] c = "B" -> "b" [] c = "C" -> "c" [] c = "D" -> "d"
      [] c = "E" -> "e" [] c = "F" -> "f" [] c = "G" -> "g" [] c = "H" -> "h"
      [] c = "I" -> "i" [] c = "J" -> "j" [] c = "K" -> "k" [] c = "L" -> "l"
      [] c = "M" -> "m" [] c = "N" -> "n" [] c = "O" -> "o" [] c = "P" -> "p"
      [] c = "Q" -> "q" [] c = "R" -> "r" [] c = "S" -> "s" [] c = "T" -> "t"
      [] c = "U" -> "u" [] c = "V" -> "v" [] c = "W" -> "w" [] c = "X" -> "x"
      [] c = "Y" -> "y" [] c = "Z" -> "z" [] OTHER -> c

\* str.lower()
Lower(w) == [i \in 1..Len(w) |-> LowerChar(w[i])]

\* w[i:] of Python with i counted from 0, i.e. the characters after the first i.
Drop(w, i) == IF i >= Len(w) THEN <<>> ELSE SubSeq(w, i + 1, Len(w))

\* Whether p occurs in w starting at (1-based) position i.
StartsWithAt(w, i, p) ==
    /\ i >= 1
    /\ i + Len(p) - 1 <= Len(w)
    /\ SubSeq(w, i, i + Len(p) - 1) = p

\* str.startswith
StartsWith(w, p) == StartsWithAt(w, 1, p)

\* str.endswith
EndsWith(w, p) == StartsWithAt(w, Len(w) - Len(p) + 1, p)

\* The first position >= i where p occurs in w, 0 when there is none
\* (str.find, 1-based).
RECURSIVE FindAt(_, _, _)
FindAt(w, i, p) ==
    IF i + Len(p) - 1 > Len(w) THEN 0
    ELSE IF StartsWithAt(w, i, p) THEN i
    ELSE FindAt(w, i + 1, p)

\* p in w
Contains(w, p) == FindAt(w, 1, p) > 0

\* The first position >= i of w that holds no white space (Len(w)+1 when
\* only white space follows): where a greedy \s* starting at i ends.
RECURSIVE SkipSpaces(_, _)
SkipSpaces(w, i) ==
    IF i > Len(w) \/ ~IsSpace(w[i]) THEN i ELSE SkipSpaces(w, i + 1)

\* The start of the run of white space that ends just before position i.
RECURSIVE SpaceRunStart(_, _)
SpaceRunStart(w, i) ==
    IF i > 1 /\ IsSpace(w[i - 1]) THEN SpaceRunStart(w, i - 1) ELSE i

\* The position after the last character of w that is no white space.
RECURSIVE LastNonSpace(_, _)
LastNonSpace(w, i) ==
    IF i >= 1 /\ IsSpace(w[i]) THEN LastNonSpace(w, i - 1) ELSE i

\* str.strip()
Strip(w) ==
    LET a == SkipSpaces(w, 1)
        b == LastNonSpace(w, Len(w))
    IN  IF a > b THEN <<>> ELSE SubSeq(w, a, b)

\* str.split(sep) for a one-character sep: always at least one piece.
RECURSIVE Split(_, _)
Split(w, sep) ==
    LET k == FindAt(w, 1, <<sep>>)
    IN  IF k = 0 THEN <<w>>
        ELSE <<SubSeq(w, 1, k - 1)>> \o Split(Drop(w, k), sep)

\* sep.join(parts)
RECURSIVE Join(_, _)
Join(parts, sep) ==
    IF parts = <<>> THEN <<>>
    ELSE IF Len(parts) = 1 THEN parts[1]
    ELSE parts[1] \o sep \o Join(Tail(parts), sep)

\* The sentinels line 94 wraps a transliteration in.
XLITS == <<"X","L","I","T","S">>
XLITE == <<"X","L","I","T","E">>

\* ------------------------------------------------- the list item pipeline

\* Line 147: re.match(r"(?s)^\(([^)]*)\):\s*(.*)$", w).  [^)]* stops at the
\* first ")" and the match needs "):" there.  The position of that ")", or 0
\* when the item has no leading sense marker.
SenseMarkerEnd(w) ==
    IF StartsWith(w, <<"(">>)
    THEN LET j == FindAt(w, 2, <<")">>)
         IN  IF j > 0 /\ StartsWithAt(w, j + 1, <<":">>) THEN j ELSE 0
    ELSE 0

\* Group 1 of the match of line 147.
SenseMarkerSense(w) == SubSeq(w, 2, SenseMarkerEnd(w) - 1)

\* Group 2 of the match of line 147: what follows "):" and the white space.
SenseMarkerRest(w) == Drop(w, SkipSpaces(w, SenseMarkerEnd(w) + 2) - 1)

\* Line 155: re.sub(r"\s*\[W[Ss]\]", "", w), from position i on.
RECURSIVE RemoveWsLinksFrom(_, _)
RemoveWsLinksFrom(w, i) ==
    IF i > Len(w) THEN <<>>
    ELSE LET k == SkipSpaces(w, i)
         IN  IF StartsWithAt(w, k, <<"[","W","S","]">>) \/ StartsWithAt(w, k, <<"[","W","s","]">>)
             THEN RemoveWsLinksFrom(w, k + 4)
             ELSE <<w[i]>> \o RemoveWsLinksFrom(w, i + 1)

RemoveWsLinks(w) == RemoveWsLinksFrom(w, 1)

\* The tail “([^"]*)"\s* of the pattern of line 166 tried at position p: the
\* position after the match, 0 when it does not match.  The opening quote
\* is U+201C, the closing one the ASCII quote.
QuoteEnd(w, p) ==
    IF StartsWithAt(w, p, <<"LDQUO">>)
    THEN LET q == FindAt(w, p + 1, <<"\"">>)
         IN  IF q = 0 THEN 0 ELSE SkipSpaces(w, q + 1)
    ELSE 0

\* The optional group (, )? of line 166 followed by the quoted tail.
CommaQuoteEnd(w, p) ==
    IF StartsWithAt(w, p, <<","," ">>) /\ QuoteEnd(w, p + 2) > 0
    THEN QuoteEnd(w, p + 2)
    ELSE QuoteEnd(w, p)

\* The pattern of line 166, (\bliterally\s*)?(, )?“([^"]*)"\s*, tried at
\* position i: the position after the match, 0 when it does not match there.
GlossEnd(w, i) ==
    LET lit == /\ StartsWithAt(w, i, <<"l","i","t","e","r","a","l","l","y">>)
               /\ (i = 1 \/ ~IsWordChar(w[i - 1]))
        viaLit == IF lit THEN CommaQuoteEnd(w, SkipSpaces(w, i + 9)) ELSE 0
    IN  IF viaLit > 0 THEN viaLit ELSE CommaQuoteEnd(w, i)

\* Lines 161-166: re.sub(pattern, engl_fn, w) with engl_fn returning "".
RECURSIVE engl_sub(_, _)
engl_sub(w, i) ==
    IF i > Len(w) THEN <<>>
    ELSE LET e == GlossEnd(w, i)
         IN  IF e > 0 THEN engl_sub(w, e)
             ELSE <<w[i]>> \o engl_sub(w, i + 1)

\* The end of the match of \(([^)]*)\)$ that starts at the "(" at position i,
\* 0 when there is none: the first ")" after i must end the string, or stand
\* before its final line break ($).
QualEndAt(w, i) ==
    LET j == FindAt(w, i + 1, <<")">>)
    IN  IF j > 0 /\ (j = Len(w) \/ (j = Len(w) - 1 /\ w[Len(w)] = "\n"))
        THEN j ELSE 0

\* The start of the leftmost match of line 184's pattern, 0 when none.
RECURSIVE QualStartFrom(_, _)
QualStartFrom(w, i) ==
    LET k == FindAt(w, i, <<"(">>)
    IN  IF k = 0 THEN 0
        ELSE IF QualEndAt(w, k) > 0 THEN k
        ELSE QualStartFrom(w, k + 1)

\* One word of a qualifier looked up in the qualifier vocabulary.
QualifierWord(q) ==
    IF q \in {<<"s","l","a","n","g">>, <<"a","r","c","h","a","i","c">>, <<"c","o","l","l","o","q","u","i","a","l">>, <<"r","a","r","e">>}
    THEN [tags |-> <<q>>, topics |-> <<>>]
    ELSE IF q \in {<<"m","e","d","i","c","i","n","e">>, <<"l","a","w">>}
    THEN [tags |-> <<>>, topics |-> <<q>>]
    ELSE [tags |-> <<>>, topics |-> <<>>]

\* parse_sense_qualifier(wxr, q, dt) of wiktextract.form_descriptions: the
\* tags and topics the comma-separated words of q resolve to.
RECURSIVE ParseQualifierWords(_)
ParseQualifierWords(parts) ==
    IF parts = <<>> THEN [tags |-> <<>>, topics |-> <<>>]
    ELSE LET h == QualifierWord(Strip(Head(parts)))
             t == ParseQualifierWords(Tail(parts))
         IN  [tags |-> h.tags \o t.tags, topics |-> h.topics \o t.topics]

parse_sense_qualifier(q) == ParseQualifierWords(Split(q, ","))

\* qual_fn without the test of line 174: the text is parsed as a qualifier
\* also when it is the sense of the item.
qual_fn_ParseSense(q, item_sense) ==
    IF Contains(q, XLITS)
    THEN [repl |-> q, tags |-> <<>>, topics |-> <<>>]
    ELSE LET dt == parse_sense_qualifier(q)
         IN  [repl |-> <<>>, tags |-> dt.tags, topics |-> dt.topics]

\* Lines 172-182: qual_fn for the parenthesized text q; what replaces the
\* match and what is appended to tags and topics.
qual_fn(q, item_sense) ==
    IF q = item_sense
    THEN [repl |-> <<>>, tags |-> <<>>, topics |-> <<>>]
    ELSE IF Contains(q, XLITS)
    THEN [repl |-> q, tags |-> <<>>, topics |-> <<>>]
    ELSE LET dt == parse_sense_qualifier(q)
         IN  [repl |-> <<>>, tags |-> dt.tags, topics |-> dt.topics]

\* Lines 168-184: tags = [], topics = [], then
\* w = re.sub(r"\(([^)]*)\)$", qual_fn, w).strip().
qual_sub(w, item_sense) ==
    LET i == QualStartFrom(w, 1)
    IN  IF i = 0
        THEN [w |-> Strip(w), tags |-> <<>>, topics |-> <<>>]
        ELSE LET j == QualEndAt(w, i)
                 r == qual_fn(SubSeq(w, i + 1, j - 1), item_sense)
             IN  [w |-> Strip(SubSeq(w, 1, i - 1) \o r.repl \o Drop(w, j)),
                  tags |-> r.tags, topics |-> r.topics]

\* Line 193: the word is now empty or a separator.
IsSeparator(w) ==
    \/ w = <<>>
    \/ StartsWith(w, <<"-","-","-">>)
    \/ w = <<"EMDASH">>

\* Line 197: re.match(r"(?s)(.*?)\s*XLITS(.*?)XLITE\s*", w1).  The position
\* of the first XLITS that an XLITE follows, 0 when there is no match.
XlitStart(w1) ==
    LET x == FindAt(w1, 1, XLITS)
    IN  IF x > 0 /\ FindAt(w1, x + 5, XLITE) > 0 THEN x ELSE 0

\* Lines 197-201: (w1, xlit) after the match; the lazy group 1 ends before
\* the white space that precedes XLITS, group 2 at the first XLITE.
XlitSplit(w1) ==
    LET x == XlitStart(w1)
    IN  IF x = 0 THEN [w1 |-> w1, xlit |-> NoneStr]
        ELSE [w1 |-> SubSeq(w1, 1, SpaceRunStart(w1, x) - 1),
              xlit |-> SubSeq(w1, x + 5, FindAt(w1, x + 5, XLITE) - 1)]

\* ns_title_prefix_tuple(wxr, "Thesaurus") of wiktextract.datautils: the
\* namespace's name followed by a colon.
ns_title_prefix_tuple == {<<"T","h","e","s","a","u","r","u","s",":">>}

\* Lines 202-205: strip, drop the namespace prefix, drop the suffix.
CleanTerm(w1) ==
    LET s == Strip(w1)
        t == IF \E p \in ns_title_prefix_tuple : StartsWith(s, p)
             THEN Drop(s, 10) ELSE s
        suffix == <<" ","[","RARROW"," ","t","h","e","s","a","u","r","u","s","]">>
    IN  IF EndsWith(t, suffix) THEN SubSeq(t, 1, Len(t) - Len(suffix)) ELSE t

\* item_sense_of with the else branch of lines 151-152 lost: an item with
\* no marker keeps the sense the item before it left in item_sense.
item_sense_sticky(w, sense, prev) ==
    IF SenseMarkerEnd(w) > 0 THEN SenseMarkerSense(w)
    ELSE IF prev # NoneStr THEN prev
    ELSE sense

\* Lines 147-152: the sense of the item; item_sense is a local of recurse
\* that both branches assign in every iteration (prev is its old value).
item_sense_of(w, sense, prev) ==
    IF SenseMarkerEnd(w) > 0 THEN SenseMarkerSense(w) ELSE sense

\* Lines 147-184 for one list item whose cleaned text is w: the sense, the
\* residue and the tags and topics of the item's qualifier.
NormalizeItem(w, sense, prev) ==
    LET s  == item_sense_of(w, sense, prev)
        w2 == IF SenseMarkerEnd(w) > 0 THEN SenseMarkerRest(w) ELSE w
    IN  CHOOSE n \in
            { [item_sense |-> s, w |-> q.w, tags |-> q.tags, topics |-> q.topics] :
                q \in { qual_sub(w4, s) :
                          w4 \in { engl_sub(w3, 1) :
                                     w3 \in { RemoveWsLinks(x) : x \in {w2} } } } } :
            TRUE

\* "|".join(xs) if xs else None, lines 220-221.
JoinOrNone(xs) == IF xs = <<>> THEN NoneStr ELSE Join(xs, <<"|">>)

\* Lines 197-225 for one comma-split word w1: the ThesaurusTerm appended
\* for it, none when the cleaned word is empty.  base holds the fields
\* shared by the words of the item.
TermRecord(w1, base) ==
    LET x == XlitSplit(w1)
        t == CleanTerm(x.w1)
    IN  IF t # <<>>
        THEN <<[base EXCEPT !.term = t, !.roman = x.xlit]>>
        ELSE <<>>

\* Lines 196-225: the loop over w.split(",").
RECURSIVE TermRecords(_, _)
TermRecords(parts, base) ==
    IF parts = <<>> THEN <<>>
    ELSE TermRecord(Head(parts), base) \o TermRecords(Tail(parts), base)

\* ------------------------------------------------------ vocabulary

\* Lines 23-66: the subtitles that only add tags, with the tags of each.
IGNORED_SUBTITLE_TAGS_MAP ==
    <<"b","y"," ","r","e","a","s","o","n">> :> <<>> @@
    <<"b","y"," ","p","e","r","i","o","d"," ","o","f"," ","t","i","m","e">> :> <<>> @@
    <<"b","y"," ","d","e","g","r","e","e">> :> <<>> @@
    <<"b","y"," ","t","y","p","e">> :> <<>> @@
    <<"o","t","h","e","r">> :> <<>> @@
    <<"o","p","a","q","u","e"," ","s","l","a","n","g"," ","t","e","r","m","s">> :> <<<<"s","l","a","n","g">>>> @@
    <<"s","l","a","n","g">> :> <<<<"s","l","a","n","g">>>> @@
    <<"c","o","l","l","o","q","u","i","a","l",","," ","a","r","c","h","a","i","c",","," ","s","l","a","n","g">> :> <<<<"c","o","l","l","o","q","u","i","a","l">>, <<"a","r","c","h","a","i","c">>, <<"s","l","a","n","g">>>> @@
    <<"e","u","p","h","e","m","i","s","m","s">> :> <<<<"e","u","p","h","e","m","i","s","m">>>> @@
    <<"c","o","l","l","o","q","u","i","a","l","i","s","m","s">> :> <<<<"c","o","l","l","o","q","u","i","a","l">>>> @@
    <<"c","o","l","l","o","q","u","i","a","l","i","s","m","s"," ","o","r"," ","s","l","a","n","g">> :> <<<<"c","o","l","l","o","q","u","i","a","l">>>> @@
    <<"t","e","c","h","n","i","c","a","l"," ","t","e","r","m","s"," ","m","i","s","u","s","e","d">> :> <<<<"c","o","l","l","o","q","u","i","a","l">>>> @@
    <<"p","e","o","p","l","e">> :> <<>> @@
    <<"p","r","o","p","e","r"," ","n","a","m","e","s">> :> <<<<"p","r","o","p","e","r","-","n","o","u","n">>>> @@
    <<"r","a","c","e","-","b","a","s","e","d"," ","(","w","a","r","n","i","n","g","-"," ","o","f","f","e","n","s","i","v","e",")">> :> <<<<"o","f","f","e","n","s","i","v","e">>>> @@
    <<"s","u","b","s","t","a","n","c","e"," ","a","d","d","i","c","t","s">> :> <<>> @@
    <<"n","o","n","-","s","u","b","s","t","a","n","c","e"," ","a","d","d","i","c","t","s">> :> <<>> @@
    <<"e","c","h","o","i","n","g"," ","s","o","u","n","d","s">> :> <<>> @@
    <<"m","o","v","e","m","e","n","t"," ","s","o","u","n","d","s">> :> <<>> @@
    <<"i","m","p","a","c","t","i","n","g"," ","s","o","u","n","d","s">> :> <<>> @@
    <<"d","e","s","t","r","u","c","t","i","v","e"," ","s","o","u","n","d","s">> :> <<>> @@
    <<"n","o","i","s","y"," ","s","o","u","n","d","s">> :> <<>> @@
    <<"v","o","c","a","l"," ","s","o","u","n","d","s">> :> <<>> @@
    <<"m","i","s","c","e","l","l","a","n","e","o","u","s"," ","s","o","u","n","d","s">> :> <<>> @@
    <<"a","g","e"," ","a","n","d"," ","g","e","n","d","e","r">> :> <<>> @@
    <<"b","r","e","e","d","s"," ","a","n","d"," ","t","y","p","e","s">> :> <<>> @@
    <<"b","y"," ","f","u","n","c","t","i","o","n">> :> <<>> @@
    <<"w","i","l","d"," ","h","o","r","s","e","s">> :> <<>> @@
    <<"b","o","d","y"," ","p","a","r","t","s">> :> <<>> @@
    <<"c","o","l","o","r","s",","," ","p","a","t","t","e","r","n","s"," ","a","n","d"," ","m","a","r","k","i","n","g","s">> :> <<>> @@
    <<"d","i","s","e","a","s","e","s">> :> <<>> @@
    <<"e","q","u","i","p","m","e","n","t"," ","a","n","d"," ","g","e","a","r">> :> <<>> @@
    <<"g","r","o","u","p","s">> :> <<>> @@
    <<"h","o","r","s","e","-","d","r","a","w","n"," ","v","e","h","i","c","l","e","s">> :> <<>> @@
    <<"p","l","a","c","e","s">> :> <<>> @@
    <<"s","p","o","r","t","s">> :> <<>> @@
    <<"s","o","u","n","d","s"," ","a","n","d"," ","b","e","h","a","v","i","o","r">> :> <<>> @@
    <<"o","b","s","c","u","r","e"," ","d","e","r","i","v","a","t","i","o","n","s">> :> <<>> @@
    <<"p","l","a","n","t","s">> :> <<>> @@
    <<"a","n","i","m","a","l","s">> :> <<>> @@
    <<"c","o","m","m","o","n">> :> <<>> @@
    <<"r","a","r","e">> :> <<<<"r","a","r","e">>>>

\* Lines 257-268: the subtitles whose sections are not walked.
IgnoredSections ==
    {<<"f","u","r","t","h","e","r"," ","r","e","a","d","i","n","g">>, <<"e","x","t","e","r","n","a","l"," ","l","i","n","k","s">>, <<"r","e","f","e","r","e","n","c","e","s">>,
     <<"t","r","a","n","s","l","a","t","i","o","n","s">>, <<"n","o","t","e","s">>, <<"u","s","a","g","e">>, <<"w","o","r","k"," ","t","o"," ","b","e"," ","d","o","n","e">>,
     <<"q","u","a","n","t","i","f","i","c","a","t","i","o","n">>, <<"a","b","b","r","e","v","i","a","t","i","o","n">>, <<"s","y","m","b","o","l">>}

\* LEVEL_KINDS of wiktextract.page: the kinds of the section headings.
LEVEL_KINDS == {"LEVEL1", "LEVEL2", "LEVEL3", "LEVEL4", "LEVEL5", "LEVEL6"}

\* wxr.wtp.NAMESPACE_DATA["Thesaurus"]["name"], line 77.
thesaurus_ns_local_name == <<"T","h","e","s","a","u","r","u","s">>

\* wxr.config.LINKAGE_SUBTITLES of the English edition (lower-cased
\* subtitle -> relation type), the entries the pages of the model use.
BaseLinkageSubtitles ==
    <<"s","y","n","o","n","y","m","s">> :> "synonyms" @@ <<"a","n","t","o","n","y","m","s">> :> "antonyms"

\* wxr.config.POS_SUBTITLES of the English edition (lower-cased subtitle ->
\* its "pos"), the entries the pages of the model use.
BasePosSubtitles ==
    <<"n","o","u","n">> :> "noun" @@ <<"a","b","b","r","e","v","i","a","t","i","o","n">> :> "abbrev" @@ <<"s","y","m","b","o","l">> :> "symbol"

\* The language names mediawiki_langcodes knows, with their codes.
BaseLanguages ==
    <<"E","n","g","l","i","s","h">> :> <<"e","n">> @@ <<"F","r","e","n","c","h">> :> <<"f","r">>

\* wxr.config.OTHER_SUBTITLES["sense"]
SensePrefix == <<"S","e","n","s","e",":"," ">>

\* name_to_code(name, "en") of mediawiki_langcodes under the language table
\* langs: the code, "" for a name that is not a language (line 241).
name_to_code(name, langs) ==
    IF name \in DOMAIN langs THEN langs[name] ELSE <<>>

\* code_to_name(code, "en") of mediawiki_langcodes, line 109: the name, ""
\* for an unknown code.
code_to_name(code, langs) ==
    IF \E n \in DOMAIN langs : langs[n] = code
    THEN CHOOSE n \in DOMAIN langs : langs[n] = code
    ELSE <<>>

\* Disposition with the part-of-speech test moved before the test of the
\* sections that are not walked.
Disposition_PosFirst(subtitle, v) ==
    IF name_to_code(subtitle, v.langs) # <<>> THEN "language"
    ELSE IF StartsWith(Lower(subtitle), Lower(SensePrefix)) THEN "sense"
    ELSE IF Lower(subtitle) \in DOMAIN v.POS_SUBTITLES THEN "pos"
    ELSE IF Lower(subtitle) \in IgnoredSections THEN "ignored"
    ELSE IF Lower(subtitle) \in DOMAIN v.LINKAGE_SUBTITLES THEN "linkage"
    ELSE IF Lower(subtitle) \in DOMAIN IGNORED_SUBTITLE_TAGS_MAP THEN "tags"
    ELSE "unhandled"

\* Lines 241-288: the branch of the heading dispatch taken for a heading
\* whose text is subtitle, under the vocabulary v.
Disposition(subtitle, v) ==
    IF name_to_code(subtitle, v.langs) # <<>> THEN "language"
    ELSE IF StartsWith(Lower(subtitle), Lower(SensePrefix)) THEN "sense"
    ELSE IF Lower(subtitle) \in IgnoredSections THEN "ignored"
    ELSE IF Lower(subtitle) \in DOMAIN v.LINKAGE_SUBTITLES THEN "linkage"
    ELSE IF Lower(subtitle) \in DOMAIN v.POS_SUBTITLES THEN "pos"
    ELSE IF Lower(subtitle) \in DOMAIN IGNORED_SUBTITLE_TAGS_MAP THEN "tags"
    ELSE "unhandled"

\* --------------------------------------------------------- the node tree

\* A Python str met where recurse expects nodes.
Str(s) == [t |-> "str", s |-> s]

\* A Python list of contents.
PyList(items) == [t |-> "list", items |-> items]

\* A WikiNode: its kind, sarg, largs (a list of lists) and children.
WikiNode(kind, sarg, largs, children) ==
    [t |-> "node", kind |-> kind, sarg |-> sarg, largs |-> largs,
     children |-> children]

\* WikiNode.contain_node(kind): some descendant of the node has that kind.
RECURSIVE contain_node(_, _)
contain_node(node, kind) ==
    \E i \in 1..Len(node.children) :
        LET c == node.children[i]
        IN  c.t = "node" /\ (c.kind = kind \/ contain_node(c, kind))

\* The text of a list of strings and nodes: the strings, in order.
RECURSIVE TextOf(_)
TextOf(items) ==
    IF items = <<>> THEN <<>>
    ELSE (IF Head(items).t = "str" THEN Head(items).s ELSE <<>>)
         \o TextOf(Tail(items))

\* The text of the lists of largs, one after another.
RECURSIVE TextOfArgs(_)
TextOfArgs(largs) ==
    IF largs = <<>> THEN <<>>
    ELSE TextOf(Head(largs)) \o TextOfArgs(Tail(largs))

\* wxr.wtp.node_to_text(contents.sarg if contents.sarg else contents.largs),
\* lines 238-240.
node_to_text(node) ==
    IF node.sarg # <<>> THEN node.sarg ELSE TextOfArgs(node.largs)

\* clean_node(wxr, None, node.children), line 143: the text of the item,
\* stripped.
clean_node(children) == Strip(TextOf(children))

\* contents.sarg if contents.sarg else contents.largs, lines 229-231, as the
\* contents recurse is given.
ArgsOf(node) ==
    IF node.sarg # <<>> THEN Str(node.sarg)
    ELSE PyList([i \in 1..Len(node.largs) |-> PyList(node.largs[i])])

\* IsTerminalList without the test for a list below: every list node.
IsTerminalList_AnyList(c) ==
    c.t = "node" /\ c.kind = "LIST"

\* Line 132: a list node with no list below it.
IsTerminalList(c) ==
    c.t = "node" /\ c.kind = "LIST" /\ ~contain_node(c, "LIST")

\* ------------------------------------------------------------- the page

\* Line 82: the title of a "Requested entries" page.
IsRequestedEntries(title) ==
    StartsWith(title, <<"T","h","e","s","a","u","r","u","s",":","R","e","q","u","e","s","t","e","d"," ","e","n","t","r","i","e","s"," ">>)

\* Lines 82-86: the titles the extractor returns None for.
IsRejectedTitle(title) ==
    IsRequestedEntries(title) \/ Contains(title, <<"/">>)

\* Lines 87-90: the entry word of a title: the namespace prefix and a short
\* language prefix removed.
EntryWord(title) ==
    LET w0  == Drop(title, Len(thesaurus_ns_local_name) + 1)
        idx == FindAt(w0, 1, <<":">>) - 1
    IN  IF idx > 0 /\ idx < 5 THEN Drop(w0, idx + 1) ELSE w0

\* The last position p with a <= p and p + 4 < e where "lang=" occurs in
\* text, 0 when there is none.
RECURSIVE LastLangBefore(_, _, _)
LastLangBefore(text, a, e) ==
    IF e - 5 < a THEN 0
    ELSE IF StartsWithAt(text, e - 5, <<"l","a","n","g","=">>) THEN e - 5
    ELSE LastLangBefore(text, a, e - 1)

\* The first position >= i of text holding one of the characters cs,
\* Len(text) + 1 when there is none.
RECURSIVE FirstOf(_, _, _)
FirstOf(text, i, cs) ==
    IF i > Len(text) \/ text[i] \in cs THEN i ELSE FirstOf(text, i + 1, cs)

\* Line 107: re.search(r"(?s)\{\{ws header\|[^}]*lang=([^}|]*)", text) from
\* position i on: group 1 of the leftmost match, NoneStr when none.  The
\* greedy [^}]* takes the last "lang=" before the first "}".
RECURSIVE WsHeaderLang(_, _)
WsHeaderLang(text, i) ==
    LET k == FindAt(text, i, <<"{","{","w","s"," ","h","e","a","d","e","r","|">>)
    IN  IF k = 0 THEN NoneStr
        ELSE LET a == k + 12
                 e == FirstOf(text, a, {"}"})
                 l == LastLangBefore(text, a, e)
             IN  IF l > 0
                 THEN SubSeq(text, l + 5, FirstOf(text, l + 5, {"}", "|"}) - 1)
                 ELSE WsHeaderLang(text, k + 1)

\* --------------------------------------------------------------- inputs

\* The deepest nesting of headings beneath the language heading in the pages
\* that are one chain of nested sections.
MaxDepth == 2

\* The most sections side by side in the pages of sibling sections.
MaxSiblings == 4

\* The most items of the lists of the pages of one list.
MaxItems == 3

\* The most entries added to the vocabulary tables to make a heading match
\* several rules of the dispatch.
MaxCollisions == 2

\* A LIST_ITEM node holding the text w.
ListItem(w) == WikiNode("LIST_ITEM", <<"*">>, <<>>, <<Str(w)>>)

\* A LIST node with one item for each text of ws.
ListOf(ws) ==
    WikiNode("LIST", <<"*">>, <<>>, [i \in 1..Len(ws) |-> ListItem(ws[i])])

\* The kind of the heading at nesting depth k (== is LEVEL2).
LevelKind(k) ==
    IF k >= 5 THEN "LEVEL6"
    ELSE <<"LEVEL2", "LEVEL3", "LEVEL4", "LEVEL5">>[k]

\* A section: a heading at depth k with the text label, and its children.
Level(k, label, children) ==
    WikiNode(LevelKind(k), <<>>, <<<<Str(label)>>>>, children)

\* The ROOT node wxr.wtp.parse returns for the page title.
Root(title, children) ==
    WikiNode("ROOT", <<>>, <<<<Str(title)>>>>, children)

\* The texts of the headings of the pages.
HeadingLabels ==
    {<<"E","n","g","l","i","s","h">>, <<"S","e","n","s","e",":"," ","b","i","g">>, <<"S","y","m","b","o","l">>, <<"S","y","n","o","n","y","m","s">>, <<"A","n","t","o","n","y","m","s">>,
     <<"N","o","u","n">>, <<"S","l","a","n","g">>, <<"P","e","o","p","l","e">>, <<"M","i","s","c">>}

\* The texts of the list items of the pages of one list of several items.
ItemTexts ==
    {<<"f","o","o">>, <<"(","f","o","r","m","a","l",")",":"," ","f","o","o",","," ","b","a","r">>, <<"b","a","z"," ","(","s","l","a","n","g",")">>, <<"-","-","-">>,
     <<"EMDASH">>, <<"f","o","o",","," ","-","-","-">>}

\* What lines 92-96 make of an item with two transliterations, the first
\* with a comma in it:
\* a<span class="tr Latn">x, y</span> b<span class="tr Latn">z</span>.
XlitCommaItem == <<"a","X","L","I","T","S","x",","," ","y","X","L","I","T","E"," ","b","X","L","I","T","S","z","X","L","I","T","E">>

\* The texts of the list items of the pages of one list of one item.
SingleItemTexts ==
    ItemTexts \cup
    {<<"q","u","x"," ","X","L","I","T","S","k","u","X","L","I","T","E">>, <<"(","x",")",":"," ">>, <<"a","*","b"," ","[","W","S","]"," ","l","i","t","e","r","a","l","l","y"," ","LDQUO","c","\"">>,
     <<"T","h","e","s","a","u","r","u","s",":","b","a","r"," ","[","RARROW"," ","t","h","e","s","a","u","r","u","s","]">>, <<"b","a","r"," ","(","x",")">>, <<>>,
     <<"(","s","l","a","n","g",")",":"," ","b","a","z"," ","(","s","l","a","n","g",")">>, <<"q","u","x"," ","(","X","L","I","T","S","k","u","X","L","I","T","E",")">>, <<"f","o","o",","," ","b","a","z"," ","(","s","l","a","n","g",","," ","l","a","w",")">>,
     XlitCommaItem, <<"f","o","o"," ","\"","c","\"">>}

QuxList == ListOf(<<<<"q","u","x">>>>)

\* The sections ls[k], ls[k+1], ... nested in one another around a list.
RECURSIVE ChainFrom(_, _, _)
ChainFrom(ls, k, list) ==
    IF k > Len(ls) THEN list
    ELSE Level(k, ls[k], <<ChainFrom(ls, k + 1, list)>>)

MainTitle == <<"T","h","e","s","a","u","r","u","s",":","c","a","t">>

PlainBody == <<"t","e","x","t">>

\* A body whose {{ws header}} names the language code fr.
WsHeaderBody == <<"{","{","w","s"," ","h","e","a","d","e","r","|","l","a","n","g","=","f","r","}","}">>

BaseVocab ==
    [langs |-> BaseLanguages,
     LINKAGE_SUBTITLES |-> BaseLinkageSubtitles,
     POS_SUBTITLES |-> BasePosSubtitles]

Input(title, body, tree, v) ==
    [page |-> [title |-> title, body |-> body, tree |-> tree], vocab |-> v]

\* Pages of one chain of nested sections around a list: a language heading
\* and the sections nested in it.
ChainInputs ==
    { Input(MainTitle, PlainBody,
            Root(MainTitle, <<ChainFrom(<<<<"E","n","g","l","i","s","h">>>> \o ls, 1, QuxList)>>),
            BaseVocab) :
        ls \in UNION { [1..d -> HeadingLabels] : d \in 0..MaxDepth } }

\* What stands side by side in the pages of sibling sections: sections
\* holding a list.
SiblingParts ==
    { Level(1, l, <<QuxList>>) :
        l \in {<<"E","n","g","l","i","s","h">>, <<"N","o","u","n">>, <<"S","e","n","s","e",":"," ","b","i","g">>, <<"A","n","t","o","n","y","m","s">>} }

SiblingInputs ==
    { Input(MainTitle, PlainBody, Root(MainTitle, parts), BaseVocab) :
        parts \in UNION { [1..n -> SiblingParts] : n \in 1..MaxSiblings } }

\* Pages of one list under a language heading and a sense heading.
ItemInputs ==
    { Input(MainTitle, PlainBody,
            Root(MainTitle,
                 <<Level(1, <<"E","n","g","l","i","s","h">>,
                         <<Level(2, <<"S","e","n","s","e",":"," ","b","i","g">>, <<ListOf(ws)>>)>>)>>),
            BaseVocab) :
        ws \in UNION { [1..n -> ItemTexts] : n \in 1..MaxItems }
              \cup { <<w>> : w \in SingleItemTexts } }

\* The headings whose text the vocabulary tables are made to collide on.
CollisionLabels == {<<"S","y","m","b","o","l">>, <<"S","l","a","n","g">>, <<"S","e","n","s","e",":"," ","b","i","g">>}

\* The vocabulary with the entries es added: each a heading text and the
\* table ("langs", "linkage", "pos") it is added to.
VocabWith(es) ==
    LET add(tab) == { e[1] : e \in { x \in es : x[2] = tab } }
    IN  [langs |-> [l \in add("langs") |-> Lower(l)] @@ BaseLanguages,
         LINKAGE_SUBTITLES |->
             [l \in { Lower(x) : x \in add("linkage") } |-> "related"]
             @@ BaseLinkageSubtitles,
         POS_SUBTITLES |->
             [l \in { Lower(x) : x \in add("pos") } |-> "adj"]
             @@ BasePosSubtitles]

\* Pages of one heading, under vocabularies in which it matches several
\* rules.
CollisionInputs ==
    { Input(MainTitle, WsHeaderBody,
            Root(MainTitle, <<Level(1, l, <<QuxList>>), QuxList>>),
            VocabWith(es)) :
        l \in CollisionLabels,
        es \in { s \in SUBSET (CollisionLabels \X {"langs", "linkage", "pos"}) :
                   Cardinality(s) <= MaxCollisions } }

\* A list whose item holds a text and a nested list: not a terminal list.
NestedList ==
    WikiNode("LIST", <<"*">>, <<>>,
             <<WikiNode("LIST_ITEM", <<"*">>, <<>>,
                        <<Str(<<"o","u","t","e","r">>), ListOf(<<<<"i","n","n","e","r">>>>)>>)>>)

\* Pages with nodes that are neither headings nor terminal lists.
ContainerInputs ==
    { Input(MainTitle, PlainBody, Root(MainTitle, children), BaseVocab) :
        children \in
          { <<Level(1, <<"E","n","g","l","i","s","h">>, <<NestedList>>)>>,
            <<Str(<<"\n">>), Level(1, <<"E","n","g","l","i","s","h">>, <<Str(<<"\n">>), QuxList>>)>>,
            <<Level(1, <<"E","n","g","l","i","s","h">>,
                    <<WikiNode("ITALIC", <<>>, <<>>, <<QuxList>>)>>)>>,
            <<Level(1, <<"E","n","g","l","i","s","h">>,
                    <<WikiNode("LIST", <<"*">>, <<>>,
                               <<Str(<<"\n">>), ListItem(<<"f","o","o">>),
                                 WikiNode("HLINE", <<>>, <<>>, <<>>)>>)>>)>>,
            <<>> } }

\* Pages by title and body: entries, requested-entries pages, subpages,
\* titles with a language prefix; with no body, a plain one, a ws header.
TitleInputs ==
    { Input(title, body,
            Root(title, <<QuxList, Level(1, <<"F","r","e","n","c","h">>, <<QuxList>>)>>),
            BaseVocab) :
        title \in {MainTitle, <<"T","h","e","s","a","u","r","u","s",":","R","e","q","u","e","s","t","e","d"," ","e","n","t","r","i","e","s"," ","(","A",")">>,
                   <<"T","h","e","s","a","u","r","u","s",":","a","/","b">>, <<"T","h","e","s","a","u","r","u","s",":","f","r",":","c","h","a","t">>},
        body \in {NoneStr, PlainBody, WsHeaderBody,
                  <<"{","{","w","s"," ","h","e","a","d","e","r","|","l","a","n","g","=","z","z","}","}">>} }

\* A container whose largs hold a list and whose children hold another.
ArgsContainer ==
    WikiNode("ITALIC", <<>>, <<<<ListOf(<<<<"d">>>>)>>>>, <<ListOf(<<<<"e">>>>)>>)

\* What follows one another under the language heading of the pages of
\* distinct terms: a list of two items, a container, a section.
OrderParts ==
    {ListOf(<<<<"a",","," ","b">>, <<"c">>>>), ArgsContainer,
     Level(2, <<"N","o","u","n">>, <<ListOf(<<<<"f">>>>)>>)}

\* Pages whose terms are all distinct: the parts in every order.
OrderInputs ==
    { Input(MainTitle, PlainBody,
            Root(MainTitle, <<Level(1, <<"E","n","g","l","i","s","h">>, parts)>>), BaseVocab) :
        parts \in { p \in UNION { [1..n -> OrderParts] : n \in 1..3 } :
                      \A i, j \in DOMAIN p : p[i] = p[j] => i = j } }

\* The texts of the headings of the sections that are not walked, as
\* pages write them.
IgnoredLabels ==
    {<<"F","u","r","t","h","e","r"," ","r","e","a","d","i","n","g">>, <<"E","x","t","e","r","n","a","l"," ","l","i","n","k","s">>, <<"R","e","f","e","r","e","n","c","e","s">>,
     <<"T","r","a","n","s","l","a","t","i","o","n","s">>, <<"N","o","t","e","s">>, <<"U","s","a","g","e">>, <<"W","o","r","k"," ","t","o"," ","b","e"," ","d","o","n","e">>,
     <<"Q","u","a","n","t","i","f","i","c","a","t","i","o","n">>, <<"A","b","b","r","e","v","i","a","t","i","o","n">>, <<"S","Y","M","B","O","L">>}

\* Pages of one such section with a list, under a language heading.
IgnoredInputs ==
    { Input(MainTitle, PlainBody,
            Root(MainTitle, <<ChainFrom(<<<<"E","n","g","l","i","s","h">>, l>>, 1, QuxList)>>),
            BaseVocab) : l \in IgnoredLabels }

Inputs ==
    ChainInputs \cup SiblingInputs \cup ItemInputs \cup CollisionInputs
    \cup ContainerInputs \cup TitleInputs \cup OrderInputs
    \cup IgnoredInputs

\* ---------------------------------------------------------------- state

VARIABLES
    page,           \* the Page given: title, body (NoneStr for None), and the
                    \* tree wxr.wtp.parse returns for its expanded body
    vocab,          \* the read-only vocabulary: langs, LINKAGE_SUBTITLES,
                    \* POS_SUBTITLES
    pc,             \* "start", "call" (recurse(cur) is entered), "items"
                    \* (in the loop of line 140), "ret" (a call of recurse
                    \* has returned retval), "done", "raised"
    cur,            \* the contents recurse is entered with
    stack,          \* the calls of recurse that wait for a nested one
    retval,         \* what the last finished call returned
    word,           \* line 87
    lang,           \* lines 99-103: the context the walk carries
    pos,
    sense,
    linkage,
    subtitle_tags,
    calls,          \* the calls made to wxr.wtp: "expand", "parse"
    logged,         \* the kinds of diagnostics logged
    emitted,        \* the records the terminal lists have returned so far,
                    \* in the order of their return
    first,          \* the first page a worker was given and what
                    \* extract_thesaurus_page did for it, once it has
                    \* gone on to another page
    es_page,        \* es/page.py: the configuration and the tree
                    \* wxr.wtp.parse returns for the page given to parse_page
    es_pc,          \* "idle", "start", "run", "done", "raised"
    es_stack,       \* the loop of parse_page and the calls of parse_entries
    heap,           \* the WordEntry objects made so far; an object is
                    \* referred to by its position
    page_data,      \* the list page_data of parse_page: references
    es_origin,      \* for each element of page_data, the sections it was
                    \* appended in
    es_logged,      \* the kinds of messages given to wxr.wtp.debug
    es_result       \* what parse_page returned, or the exception it raised

vars ==
    <<page, vocab, pc, cur, stack, retval, word, lang, pos, sense, linkage,
      subtitle_tags, calls, logged, emitted, first, es_page, es_pc, es_stack,
      heap, page_data, es_origin, es_logged, es_result>>

\* The state of extract_thesaurus_page and the state of es/page.py.
thvars ==
    <<page, vocab, pc, cur, stack, retval, word, lang, pos, sense, linkage,
      subtitle_tags, calls, logged, emitted, first>>

esvars ==
    <<es_page, es_pc, es_stack, heap, page_data, es_origin, es_logged,
      es_result>>

\* parse_page is not running.
EsIdle ==
    /\ es_page = [title |-> "", config |-> <<>>, tree |-> <<>>]
    /\ es_pc = "idle"
    /\ es_stack = <<>>
    /\ heap = <<>>
    /\ page_data = <<>>
    /\ es_origin = <<>>
    /\ es_logged = {}
    /\ es_result = <<>>

ctx == <<lang, pos, sense, linkage, subtitle_tags>>

\* None where the code holds an Optional list of str (tags, topics).
NoneList == <<NoneStr>>

\* What a call of recurse returns: None, or a list of ThesaurusTerm.
RetNone == [none |-> TRUE, recs |-> <<>>]
RetList(recs) == [none |-> FALSE, recs |-> recs]

\* thesaurus.extend(x_result) when x_result is not None, lines 126-127,
\* 232-236.
Extend(thesaurus, r) == IF r.none THEN thesaurus ELSE thesaurus \o r.recs

Top == stack[Len(stack)]
Pop == SubSeq(stack, 1, Len(stack) - 1)

\* No page has been finished before the one at hand.
NoFirst == <<>>

\* extract_thesaurus_page is called for one of the pages of inputs.
InitWith(inputs) ==
    /\ \E inp \in inputs : page = inp.page /\ vocab = inp.vocab
    /\ first = NoFirst
    /\ pc = "start"
    /\ cur = Str(<<>>)
    /\ stack = <<>>
    /\ retval = RetNone
    /\ word = NoneStr
    /\ lang = NoneStr
    /\ pos = NoneVal
    /\ sense = NoneStr
    /\ linkage = NoneVal
    /\ subtitle_tags = <<>>
    /\ calls = <<>>
    /\ logged = {}
    /\ emitted = <<>>
    /\ EsIdle

Init == InitWith(Inputs)

\* ------------------------------------------------ extract_thesaurus_page

\* Line 81: assert text is not None.
AssertBody ==
    /\ pc = "start"
    /\ page.body = NoneStr
    /\ pc' = "raised"
    /\ UNCHANGED <<esvars, first, page, vocab, cur, stack, retval, word, ctx, calls, logged,
                   emitted>>

\* Lines 82-86: the page is not a thesaurus entry; return None.
RejectTitle ==
    /\ pc = "start"
    /\ page.body # NoneStr
    /\ IsRejectedTitle(page.title)
    /\ pc' = "done"
    /\ retval' = RetNone
    /\ UNCHANGED <<esvars, first, page, vocab, cur, stack, word, ctx, calls, logged, emitted>>

\* BeginWalk without the assignments of lines 99-103: the context is what
\* it was, but for the language of a {{ws header}}.
BeginWalk_KeepContext ==
    /\ pc = "start"
    /\ page.body # NoneStr
    /\ ~IsRejectedTitle(page.title)
    /\ page.tree.kind = "ROOT"
    /\ word' = EntryWord(page.title)
    /\ calls' = <<"expand", "parse">>
    /\ lang' = LET code == WsHeaderLang(page.body, 1)
               IN  IF code = NoneStr THEN lang
                   ELSE code_to_name(code, vocab.langs)
    /\ UNCHANGED <<pos, sense, linkage, subtitle_tags>>
    /\ cur' = page.tree
    /\ pc' = "call"
    /\ UNCHANGED <<esvars, first, page, vocab, stack, retval, logged, emitted>>

\* Lines 87-110 and 290: the entry word, expansion and parsing, the context
\* with the language of a {{ws header}}, and the call recurse(tree).
BeginWalk ==
    /\ pc = "start"
    /\ page.body # NoneStr
    /\ ~IsRejectedTitle(page.title)
    /\ page.tree.kind = "ROOT"
    /\ word' = EntryWord(page.title)
    /\ calls' = <<"expand", "parse">>
    /\ lang' = LET code == WsHeaderLang(page.body, 1)
               IN  IF code = NoneStr THEN NoneStr
                   ELSE code_to_name(code, vocab.langs)
    /\ pos' = NoneVal
    /\ sense' = NoneStr
    /\ linkage' = NoneVal
    /\ subtitle_tags' = <<>>
    /\ cur' = page.tree
    /\ pc' = "call"
    /\ UNCHANGED <<esvars, first, page, vocab, stack, retval, logged, emitted>>

\* ---------------------------------------------------------------- recurse

\* Lines 122-128 on entry: thesaurus = [] and the first element, or the
\* empty list returned at once.
RecurseList ==
    /\ pc = "call"
    /\ cur.t = "list"
    /\ IF cur.items = <<>>
       THEN /\ retval' = RetList(<<>>)
            /\ pc' = "ret"
            /\ UNCHANGED <<cur, stack>>
       ELSE /\ stack' = Append(stack, [f |-> "list", items |-> cur.items,
                                       i |-> 1, thesaurus |-> <<>>])
            /\ cur' = cur.items[1]
            /\ pc' = "call"
            /\ UNCHANGED retval
    /\ UNCHANGED <<esvars, first, page, vocab, word, ctx, calls, logged, emitted>>

\* ListNext giving up the list when an element's walk returns None.
ListNext_StopOnNone ==
    /\ pc = "ret"
    /\ stack # <<>>
    /\ Top.f = "list"
    /\ LET th == Extend(Top.thesaurus, retval)
       IN  IF Top.i = Len(Top.items) \/ retval.none
           THEN /\ stack' = Pop
                /\ retval' = IF retval.none THEN RetNone ELSE RetList(th)
                /\ pc' = "ret"
                /\ UNCHANGED cur
           ELSE /\ stack' = [stack EXCEPT ![Len(stack)] =
                                [Top EXCEPT !.i = Top.i + 1, !.thesaurus = th]]
                /\ cur' = Top.items[Top.i + 1]
                /\ pc' = "call"
                /\ UNCHANGED retval
    /\ UNCHANGED <<esvars, first, page, vocab, word, ctx, calls, logged, emitted>>

\* ListNext with the context scoped to the element: part of speech, sense
\* and relation type are unset again when the element's walk has returned.
ListNext_ScopedContext ==
    /\ pc = "ret"
    /\ stack # <<>>
    /\ Top.f = "list"
    /\ LET th == Extend(Top.thesaurus, retval)
       IN  IF Top.i = Len(Top.items)
           THEN /\ stack' = Pop
                /\ retval' = RetList(th)
                /\ pc' = "ret"
                /\ UNCHANGED cur
           ELSE /\ stack' = [stack EXCEPT ![Len(stack)] =
                                [Top EXCEPT !.i = Top.i + 1, !.thesaurus = th]]
                /\ cur' = Top.items[Top.i + 1]
                /\ pc' = "call"
                /\ UNCHANGED retval
    /\ pos' = NoneVal
    /\ sense' = NoneStr
    /\ linkage' = NoneVal
    /\ UNCHANGED <<esvars, first, page, vocab, word, lang, subtitle_tags, calls, logged,
                   emitted>>

\* Lines 124-128: an element's walk has returned; extend and go on, or
\* return thesaurus after the last element.
ListNext ==
    /\ pc = "ret"
    /\ stack # <<>>
    /\ Top.f = "list"
    /\ LET th == Extend(Top.thesaurus, retval)
       IN  IF Top.i = Len(Top.items)
           THEN /\ stack' = Pop
                /\ retval' = RetList(th)
                /\ pc' = "ret"
                /\ UNCHANGED cur
           ELSE /\ stack' = [stack EXCEPT ![Len(stack)] =
                                [Top EXCEPT !.i = Top.i + 1, !.thesaurus = th]]
                /\ cur' = Top.items[Top.i + 1]
                /\ pc' = "call"
                /\ UNCHANGED retval
    /\ UNCHANGED <<esvars, first, page, vocab, word, ctx, calls, logged, emitted>>

\* Lines 129-130: not a WikiNode.
RecurseNonNode ==
    /\ pc = "call"
    /\ cur.t = "str"
    /\ retval' = RetNone
    /\ pc' = "ret"
    /\ UNCHANGED <<esvars, first, page, vocab, cur, stack, word, ctx, calls, logged, emitted>>

\* Lines 132-138: a terminal list met with no language.
ListWithoutLang ==
    /\ pc = "call"
    /\ IsTerminalList(cur)
    /\ lang = NoneStr
    /\ logged' = logged \cup {"UNEXPECTED LIST WITHOUT LANG"}
    /\ retval' = RetNone
    /\ pc' = "ret"
    /\ UNCHANGED <<esvars, first, page, vocab, cur, stack, word, ctx, calls, emitted>>

\* Lines 132, 139-140: a terminal list; thesaurus = [] and the loop over its
\* children begins.  item_sense, tags and topics are the locals of lines
\* 118-120.
TerminalList ==
    /\ pc = "call"
    /\ IsTerminalList(cur)
    /\ lang # NoneStr
    /\ stack' = Append(stack, [f |-> "items", children |-> cur.children,
                               i |-> 1, thesaurus |-> <<>>,
                               item_sense |-> NoneStr, tags |-> NoneList,
                               topics |-> NoneList])
    /\ pc' = "items"
    /\ UNCHANGED <<esvars, first, page, vocab, cur, retval, word, ctx, calls, logged, emitted>>

\* Lines 141-142: the child is a node of kind LIST_ITEM.
IsListItem(node) == IF node.t = "str" THEN FALSE ELSE node.kind = "LIST_ITEM"

\* Lines 141-142: a child that is no list item is passed over.
ItemSkip ==
    /\ pc = "items"
    /\ Top.i <= Len(Top.children)
    /\ ~IsListItem(Top.children[Top.i])
    /\ stack' = [stack EXCEPT ![Len(stack)] = [Top EXCEPT !.i = Top.i + 1]]
    /\ UNCHANGED <<esvars, first, page, vocab, pc, cur, retval, word, ctx, calls, logged,
                   emitted>>

\* The item the loop of line 140 is at.
IsAtItem ==
    /\ pc = "items"
    /\ Top.i <= Len(Top.children)
    /\ IsListItem(Top.children[Top.i])

\* Lines 143-184 for the item the loop is at.
ItemNormalized ==
    CHOOSE n \in { NormalizeItem(w, sense, Top.item_sense) :
                      w \in {clean_node(Top.children[Top.i].children)} } : TRUE

\* The diagnostic of lines 144-145.
StarLog(w) == IF Contains(w, <<"*">>) THEN {"STAR IN WORD"} ELSE {}

\* Lines 193-194: the residue of the item is empty or a separator, and
\* recurse returns None.
ItemSeparator ==
    /\ IsAtItem
    /\ \E n \in {ItemNormalized} : IsSeparator(n.w)
    /\ stack' = Pop
    /\ retval' = RetNone
    /\ pc' = "ret"
    /\ logged' = logged \cup StarLog(clean_node(Top.children[Top.i].children))
    /\ UNCHANGED <<esvars, first, page, vocab, cur, word, ctx, calls, emitted>>

\* rel_of without the default of line 195.
rel_of_NoDefault(l) == l

\* Line 195: rel = linkage or "synonyms".
rel_of(l) == IF l = NoneVal \/ l = "" THEN "synonyms" ELSE l

\* Lines 208-225: the fields the records of one item share.
TermBase(n) ==
    [entry |-> word,
     language_code |-> name_to_code(lang, vocab.langs),
     pos |-> pos,
     linkage |-> rel_of(linkage),
     term |-> <<>>,
     tags |-> JoinOrNone(n.tags),
     topics |-> JoinOrNone(n.topics),
     roman |-> NoneStr,
     sense |-> n.item_sense]

\* The records lines 196-225 append for the item the loop is at.
ItemRecords ==
    CHOOSE recs \in UNION { { TermRecords(parts, base) :
                                parts \in {Split(n.w, ",")}, base \in {TermBase(n)} } :
                            n \in {ItemNormalized} } : TRUE

\* The diagnostic of lines 209-212, logged with a record whose lang_code
\* is None.
LangLog(recs) ==
    IF \E i \in 1..Len(recs) : recs[i].language_code = NoneStr
    THEN {"LANGUAGE NOT RECOGNIZED"} ELSE {}

\* Lines 143-225: one list item with a residue; its records are appended.
ItemEmit ==
    /\ IsAtItem
    /\ \E n \in {ItemNormalized}, recs \in {ItemRecords} :
          /\ ~IsSeparator(n.w)
          /\ stack' = [stack EXCEPT ![Len(stack)] =
                          [Top EXCEPT !.i = Top.i + 1,
                                      !.thesaurus = Top.thesaurus \o recs,
                                      !.item_sense = n.item_sense,
                                      !.tags = n.tags,
                                      !.topics = n.topics]]
          /\ logged' = logged \cup StarLog(clean_node(Top.children[Top.i].children))
                               \cup LangLog(recs)
    /\ UNCHANGED <<esvars, first, page, vocab, pc, cur, retval, word, ctx, calls, emitted>>

\* Line 226: the loop is over; return thesaurus.
ItemsDone ==
    /\ pc = "items"
    /\ Top.i > Len(Top.children)
    /\ stack' = Pop
    /\ retval' = RetList(Top.thesaurus)
    /\ emitted' = emitted \o Top.thesaurus
    /\ pc' = "ret"
    /\ UNCHANGED <<esvars, first, page, vocab, cur, word, ctx, calls, logged>>

\* Lines 227-231: a node that is neither a terminal list nor a heading;
\* its sarg or largs are walked first.
Container ==
    /\ pc = "call"
    /\ cur.t = "node"
    /\ ~IsTerminalList(cur)
    /\ cur.kind \notin LEVEL_KINDS
    /\ stack' = Append(stack, [f |-> "container", node |-> cur,
                               phase |-> "args", thesaurus |-> <<>>])
    /\ cur' = ArgsOf(cur)
    /\ UNCHANGED <<esvars, first, page, vocab, pc, retval, word, ctx, calls, logged, emitted>>

\* ContainerChildren walking the arguments once more where the children
\* are due.
ContainerChildren_ArgsAgain ==
    /\ pc = "ret"
    /\ stack # <<>>
    /\ Top.f = "container"
    /\ Top.phase = "args"
    /\ stack' = [stack EXCEPT ![Len(stack)] =
                    [Top EXCEPT !.thesaurus = Extend(Top.thesaurus, retval)]]
    /\ cur' = ArgsOf(Top.node)
    /\ pc' = "call"
    /\ UNCHANGED <<esvars, first, page, vocab, retval, word, ctx, calls, logged, emitted>>

\* Lines 232-234: the walk of the arguments has returned; the children are
\* walked.
ContainerChildren ==
    /\ pc = "ret"
    /\ stack # <<>>
    /\ Top.f = "container"
    /\ Top.phase = "args"
    /\ stack' = [stack EXCEPT ![Len(stack)] =
                    [Top EXCEPT !.phase = "children",
                                !.thesaurus = Extend(Top.thesaurus, retval)]]
    /\ cur' = PyList(Top.node.children)
    /\ pc' = "call"
    /\ UNCHANGED <<esvars, first, page, vocab, retval, word, ctx, calls, logged, emitted>>

\* ContainerReturn with the records of the children put before those of
\* the arguments.
ContainerReturn_ChildrenFirst ==
    /\ pc = "ret"
    /\ stack # <<>>
    /\ Top.f = "container"
    /\ Top.phase = "children"
    /\ stack' = Pop
    /\ retval' = RetList(retval.recs \o Top.thesaurus)
    /\ UNCHANGED <<esvars, first, page, vocab, pc, cur, word, ctx, calls, logged, emitted>>

\* Lines 235-237: the walk of the children has returned; return thesaurus.
ContainerReturn ==
    /\ pc = "ret"
    /\ stack # <<>>
    /\ Top.f = "container"
    /\ Top.phase = "children"
    /\ stack' = Pop
    /\ retval' = RetList(Extend(Top.thesaurus, retval))
    /\ UNCHANGED <<esvars, first, page, vocab, pc, cur, word, ctx, calls, logged, emitted>>

\* A heading is entered and the dispatch of lines 241-288 takes branch d.
AtHeading(d) ==
    /\ pc = "call"
    /\ cur.t = "node"
    /\ ~IsTerminalList(cur)
    /\ cur.kind \in LEVEL_KINDS
    /\ Disposition(node_to_text(cur), vocab) = d

\* return recurse(contents.children): the heading's call returns what the
\* walk of its children returns.
Descend ==
    /\ cur' = PyList(cur.children)
    /\ pc' = "call"
    /\ UNCHANGED <<esvars, first, page, vocab, stack, retval, word, calls, emitted>>

\* Lines 241-246: a language heading.
HeadingLanguage ==
    /\ AtHeading("language")
    /\ lang' = node_to_text(cur)
    /\ pos' = NoneVal
    /\ sense' = NoneStr
    /\ linkage' = NoneVal
    /\ UNCHANGED <<subtitle_tags, logged>>
    /\ Descend

\* HeadingSense without the assignment of line 253.
HeadingSense_KeepLinkage ==
    /\ AtHeading("sense")
    /\ sense' = Drop(node_to_text(cur), Len(SensePrefix))
    /\ UNCHANGED <<lang, pos, linkage, subtitle_tags, logged>>
    /\ Descend

\* Lines 249-254: a sense heading.
HeadingSense ==
    /\ AtHeading("sense")
    /\ sense' = Drop(node_to_text(cur), Len(SensePrefix))
    /\ linkage' = NoneVal
    /\ UNCHANGED <<lang, pos, subtitle_tags, logged>>
    /\ Descend

\* HeadingIgnored walking the children of the section all the same.
HeadingIgnored_Descend ==
    /\ AtHeading("ignored")
    /\ UNCHANGED <<ctx, logged>>
    /\ Descend

\* Lines 256-269: a section that is not walked; return None.
HeadingIgnored ==
    /\ AtHeading("ignored")
    /\ retval' = RetNone
    /\ pc' = "ret"
    /\ UNCHANGED <<esvars, first, page, vocab, cur, stack, word, ctx, calls, logged, emitted>>

\* Lines 270-272: a relation-type heading.
HeadingLinkage ==
    /\ AtHeading("linkage")
    /\ linkage' = vocab.LINKAGE_SUBTITLES[Lower(node_to_text(cur))]
    /\ UNCHANGED <<lang, pos, sense, subtitle_tags, logged>>
    /\ Descend

\* HeadingPos without the reset of sense of line 275.
HeadingPos_KeepSense ==
    /\ AtHeading("pos")
    /\ pos' = vocab.POS_SUBTITLES[Lower(node_to_text(cur))]
    /\ linkage' = NoneVal
    /\ UNCHANGED <<lang, sense, subtitle_tags, logged>>
    /\ Descend

\* Lines 273-277: a part-of-speech heading.
HeadingPos ==
    /\ AtHeading("pos")
    /\ pos' = vocab.POS_SUBTITLES[Lower(node_to_text(cur))]
    /\ sense' = NoneStr
    /\ linkage' = NoneVal
    /\ UNCHANGED <<lang, subtitle_tags, logged>>
    /\ Descend

\* Lines 278-282: a subtitle that only gives tags.
HeadingTags ==
    /\ AtHeading("tags")
    /\ subtitle_tags' = IGNORED_SUBTITLE_TAGS_MAP[Lower(node_to_text(cur))]
    /\ UNCHANGED <<lang, pos, sense, linkage, logged>>
    /\ Descend

\* HeadingUnhandled giving up the section: return None.
HeadingUnhandled_Stop ==
    /\ AtHeading("unhandled")
    /\ logged' = logged \cup {"UNHANDLED SUBTITLE"}
    /\ retval' = RetNone
    /\ pc' = "ret"
    /\ UNCHANGED <<esvars, first, page, vocab, cur, stack, word, ctx, calls, emitted>>

\* Lines 283-288: a subtitle that is not handled.
HeadingUnhandled ==
    /\ AtHeading("unhandled")
    /\ logged' = logged \cup {"UNHANDLED SUBTITLE"}
    /\ UNCHANGED ctx
    /\ Descend

\* Line 290: recurse(tree) has returned to extract_thesaurus_page.
Return ==
    /\ pc = "ret"
    /\ stack = <<>>
    /\ pc' = "done"
    /\ UNCHANGED <<esvars, first, page, vocab, cur, stack, retval, word, ctx, calls, logged,
                   emitted>>

Next ==
    \/ AssertBody
    \/ RejectTitle
    \/ BeginWalk
    \/ RecurseList
    \/ ListNext
    \/ RecurseNonNode
    \/ ListWithoutLang
    \/ TerminalList
    \/ ItemSkip
    \/ ItemSeparator
    \/ ItemEmit
    \/ ItemsDone
    \/ Container
    \/ ContainerChildren
    \/ ContainerReturn
    \/ HeadingLanguage
    \/ HeadingSense
    \/ HeadingIgnored
    \/ HeadingLinkage
    \/ HeadingPos
    \/ HeadingTags
    \/ HeadingUnhandled
    \/ Return

Spec == Init /\ [][Next]_vars

\* ------------------------------------------------- a worker, page by page

\* A page that meets every branch of the walk and leaves every field of
\* the context set.
BusyPage ==
    Root(MainTitle,
         <<QuxList, Str(<<"\n">>),
           Level(1, <<"E","n","g","l","i","s","h">>,
             <<Level(2, <<"S","y","m","b","o","l">>, <<QuxList>>),
               Level(2, <<"N","o","u","n">>,
                 <<Level(3, <<"S","e","n","s","e",":"," ","b","i","g">>,
                     <<Level(4, <<"A","n","t","o","n","y","m","s">>,
                         <<Level(5, <<"S","l","a","n","g">>,
                             <<Level(6, <<"M","i","s","c">>,
                                 <<WikiNode("LIST", <<"*">>, <<>>,
                                            <<Str(<<"\n">>), ListItem(<<"f","o","o">>)>>),
                                   ListOf(<<<<"-","-","-">>>>)>>)>>)>>)>>)>>)>>)>>)

\* The pages a worker is given, one after another, in any order.
WorkerPages ==
    { Input(MainTitle, PlainBody, BusyPage, BaseVocab),
      Input(MainTitle, PlainBody, Root(MainTitle, <<QuxList>>), BaseVocab),
      Input(MainTitle, WsHeaderBody, Root(MainTitle, <<QuxList>>), BaseVocab),
      Input(MainTitle, PlainBody,
            Root(MainTitle, <<Level(1, <<"E","n","g","l","i","s","h">>, <<QuxList>>)>>), BaseVocab),
      Input(<<"T","h","e","s","a","u","r","u","s",":","f","r",":","c","h","a","t">>, PlainBody,
            Root(<<"T","h","e","s","a","u","r","u","s",":","f","r",":","c","h","a","t">>,
                 <<Level(1, <<"F","r","e","n","c","h">>,
                         <<Level(2, <<"S","y","n","o","n","y","m","s">>, <<QuxList>>)>>)>>),
            BaseVocab),
      Input(MainTitle, NoneStr, Root(MainTitle, <<QuxList>>), BaseVocab),
      Input(<<"T","h","e","s","a","u","r","u","s",":","a","/","b">>, PlainBody, Root(<<"T","h","e","s","a","u","r","u","s",":","a","/","b">>, <<QuxList>>),
            BaseVocab) }

InitWorker == InitWith(WorkerPages)

\* extract_thesaurus_page has returned or raised and is called for another
\* page.  Nothing is assigned by the call itself: the fields of the context
\* hold what the page before left in them until the code assigns them.
NextPage ==
    /\ pc \in {"done", "raised"}
    /\ first' = IF first = NoFirst
                THEN <<[page |-> page, pc |-> pc,
                        retval |-> IF pc = "done" THEN retval ELSE RetNone]>>
                ELSE first
    /\ \E inp \in WorkerPages : page' = inp.page
    /\ pc' = "start"
    /\ calls' = <<>>
    /\ logged' = {}
    /\ emitted' = <<>>
    /\ UNCHANGED <<esvars, vocab, cur, stack, retval, word, ctx>>

NextWorker == Next \/ NextPage

WorkerSpec == InitWorker /\ [][NextWorker]_vars

\* ------------------------------------------- the walk, run to completion

\* The pages of every shape of tree: chains of sections, containers, lists
\* outside a language section, sections in every order, sections that are
\* not walked, and the pages of the worker.
FairInputs ==
    ChainInputs \cup ContainerInputs \cup TitleInputs \cup OrderInputs
        \cup IgnoredInputs \cup WorkerPages

\* extract_thesaurus_page is a plain function call: once called, the
\* interpreter goes on executing it as long as it has a next step.
FairSpec == InitWith(FairInputs) /\ [][Next]_vars /\ WF_vars(Next)
\* ---------------------------------------------------------------- claims

\* The elements of a sequence.
Range(s) == { s[i] : i \in 1..Len(s) }

\* The tags of a record: its tags field split at "|"; none when it is None.
TagsOf(r) == IF r.tags = NoneStr THEN {} ELSE Range(Split(r.tags, "|"))

\* recurse is entered with a heading.
IsHeadingCall ==
    pc = "call" /\ (IF cur.t = "node" THEN cur.kind \in LEVEL_KINDS ELSE FALSE)

\* recurse is entered with a terminal list.
IsTerminalListCall == pc = "call" /\ IsTerminalList(cur)

\* The records of the finished extraction.
Result == retval.recs

\* A page of one chain of sections with the texts ls around the list of qux.
ChainPage(ls) == Root(MainTitle, <<ChainFrom(ls, 1, QuxList)>>)

\* A page of sections side by side with the texts ls, each holding the list
\* of qux.
SiblingPage(ls) ==
    Root(MainTitle, [i \in 1..Len(ls) |-> Level(1, ls[i], <<QuxList>>)])

\* A page of one list of the items ws under "English" and "Sense: big".
ItemPage(ws) ==
    Root(MainTitle,
         <<Level(1, <<"E","n","g","l","i","s","h">>,
                 <<Level(2, <<"S","e","n","s","e",":"," ","b","i","g">>, <<ListOf(ws)>>)>>)>>)

\* A terminal list, or a section whose only child is such a chain.
RECURSIVE IsChain(_)
IsChain(node) ==
    IF node.t # "node" THEN FALSE
    ELSE IF node.kind \in LEVEL_KINDS
    THEN Len(node.children) = 1 /\ IsChain(node.children[1])
    ELSE IsTerminalList(node)

\* The page is one chain of nested sections around a terminal list: the
\* list lies beneath every heading of the page.
IsChainPage ==
    Len(page.tree.children) = 1 /\ IsChain(page.tree.children[1])

\* C1: a record emitted from a terminal list beneath a tag-only heading
\* carries the heading's tags merged with the item's own: on a page that is
\* one chain of sections every record of the list holds every tag of
\* subtitle_tags, and the page English > Slang > Synonyms > "* qux" yields
\* exactly one record, term qux, tags {slang}, relation type synonyms.
C1_TagHeadingTagsOnRecords ==
    /\ (pc = "items" /\ IsChainPage) =>
          \A i \in 1..Len(Top.thesaurus) :
              Range(subtitle_tags) \subseteq TagsOf(Top.thesaurus[i])
    /\ (pc = "done" /\ page.tree = ChainPage(<<<<"E","n","g","l","i","s","h">>, <<"S","l","a","n","g">>, <<"S","y","n","o","n","y","m","s">>>>)) =>
          /\ Len(Result) = 1
          /\ Result[1].term = <<"q","u","x">>
          /\ TagsOf(Result[1]) = {<<"s","l","a","n","g">>}
          /\ Result[1].linkage = "synonyms"

\* The number of the comma-split words of a residue that, cleaned, are
\* neither empty nor a separator.
RECURSIVE CountTerms(_)
CountTerms(parts) ==
    IF parts = <<>> THEN 0
    ELSE (IF IsSeparator(CleanTerm(XlitSplit(Head(parts)).w1)) THEN 0 ELSE 1)
         + CountTerms(Tail(parts))

\* The number of records the items of a list call for under the sense s: an
\* item whose residue is empty or a separator calls for none.
RECURSIVE ExpectedCount(_, _)
ExpectedCount(children, s) ==
    IF children = <<>> THEN 0
    ELSE (IF IsListItem(Head(children))
          THEN LET n == NormalizeItem(clean_node(Head(children).children),
                                      s, NoneStr)
               IN  IF IsSeparator(n.w) THEN 0
                   ELSE CountTerms(Split(n.w, ","))
          ELSE 0)
         + ExpectedCount(Tail(children), s)

\* C2: a terminal list processed while the language is set returns as many
\* records as its items have non-empty, non-separator comma-split terms; an
\* item with an empty or separator residue adds none and leaves the records
\* of the other items of the list alone.
C2_ListRecordCount ==
    [][(pc = "items" /\ pc' = "ret") =>
          Len(retval'.recs) = ExpectedCount(Top.children, sense)]_vars

\* C3: every record returned has a term that is not empty and not a
\* separator (three dashes and more, or one em-dash), also when it is one of
\* several comma-split words of an item.
C3_NoSeparatorTerms ==
    pc = "done" => \A i \in 1..Len(Result) : ~IsSeparator(Result[i].term)

\* The rules of the heading dispatch, from the highest priority down.
Rules ==
    <<"language", "sense", "ignored", "linkage", "pos", "tags", "unhandled">>

\* Whether a heading text s matches a rule, each rule taken alone.
Matches(rule, s, v) ==
    CASE rule = "language" -> s \in DOMAIN v.langs
      [] rule = "sense" -> StartsWith(Lower(s), Lower(SensePrefix))
      [] rule = "ignored" -> Lower(s) \in IgnoredSections
      [] rule = "linkage" -> Lower(s) \in DOMAIN v.LINKAGE_SUBTITLES
      [] rule = "pos" -> Lower(s) \in DOMAIN v.POS_SUBTITLES
      [] rule = "tags" -> Lower(s) \in DOMAIN IGNORED_SUBTITLE_TAGS_MAP
      [] OTHER -> TRUE

\* The matching rule of the highest priority.
BestRule(s, v) ==
    Rules[CHOOSE k \in 1..Len(Rules) :
              /\ Matches(Rules[k], s, v)
              /\ \A j \in 1..(k - 1) : ~Matches(Rules[j], s, v)]

\* The step walks on into the children of the heading.
Descended == pc' = "call" /\ cur' = PyList(cur.children) /\ stack' = stack

\* The step has the effects of one rule on a heading with the text s.
RuleEffects(rule, s) ==
    CASE rule = "language" ->
            /\ lang' = s /\ pos' = NoneVal /\ sense' = NoneStr
            /\ linkage' = NoneVal /\ subtitle_tags' = subtitle_tags /\ Descended
      [] rule = "sense" ->
            /\ sense' = Drop(s, Len(SensePrefix)) /\ linkage' = NoneVal
            /\ UNCHANGED <<lang, pos, subtitle_tags>> /\ Descended
      [] rule = "ignored" ->
            /\ UNCHANGED <<ctx, stack, emitted>> /\ pc' = "ret" /\ retval'.none
      [] rule = "linkage" ->
            /\ linkage' = vocab.LINKAGE_SUBTITLES[Lower(s)]
            /\ UNCHANGED <<lang, pos, sense, subtitle_tags>> /\ Descended
      [] rule = "pos" ->
            /\ pos' = vocab.POS_SUBTITLES[Lower(s)] /\ sense' = NoneStr
            /\ linkage' = NoneVal /\ UNCHANGED <<lang, subtitle_tags>>
            /\ Descended
      [] rule = "tags" ->
            /\ UNCHANGED <<lang, pos, sense, linkage, logged>> /\ Descended
      [] OTHER ->
            /\ UNCHANGED ctx /\ "UNHANDLED SUBTITLE" \in logged' /\ Descended

\* C4: the heading dispatch is total and first-match-wins in the order
\* language > sense > ignored section > relation type > part of speech >
\* tag-only > unknown: whatever the heading text and the vocabulary tables,
\* the step taken on a heading has the effects of the matching rule of the
\* highest priority (a text both an ignored section and a part of speech is
\* not descended into and leaves part_of_speech alone).
C4_DispatchPriority ==
    [][IsHeadingCall =>
          RuleEffects(BestRule(node_to_text(cur), vocab), node_to_text(cur))]_vars

\* A heading "Symbol", an ignored section that is also a part of speech and,
\* here, a relation type, has been passed over with part_of_speech unset.
C4_Witness ==
    /\ pc = "ret"
    /\ retval.none
    /\ (IF cur.t = "node" THEN cur.kind \in LEVEL_KINDS ELSE FALSE)
    /\ node_to_text(cur) = <<"S","y","m","b","o","l">>
    /\ <<"s","y","m","b","o","l">> \in DOMAIN vocab.POS_SUBTITLES
    /\ <<"s","y","m","b","o","l">> \in DOMAIN vocab.LINKAGE_SUBTITLES
    /\ pos = NoneVal
    /\ linkage = NoneVal

\* C5: a language heading leaves part_of_speech, sense and relation_type
\* unset and language equal to its text, whatever they were; a
\* part-of-speech heading leaves sense and relation_type unset,
\* part_of_speech the mapped value, and language as it was.
C5_ContextReset ==
    [][/\ AtHeading("language") =>
            /\ lang' = node_to_text(cur)
            /\ pos' = NoneVal /\ sense' = NoneStr /\ linkage' = NoneVal
       /\ AtHeading("pos") =>
            /\ pos' = vocab.POS_SUBTITLES[Lower(node_to_text(cur))]
            /\ sense' = NoneStr /\ linkage' = NoneVal
            /\ lang' = lang]_vars

\* On the page Noun, Sense: big, Antonyms, English (side by side) the fourth
\* heading has just been classified: all three fields had been set and are
\* unset now.
C5_Witness ==
    /\ page.tree = SiblingPage(<<<<"N","o","u","n">>, <<"S","e","n","s","e",":"," ","b","i","g">>, <<"A","n","t","o","n","y","m","s">>, <<"E","n","g","l","i","s","h">>>>)
    /\ pc = "call"
    /\ cur = PyList(<<QuxList>>)
    /\ Top.i = 4
    /\ lang = <<"E","n","g","l","i","s","h">>
    /\ pos = NoneVal /\ sense = NoneStr /\ linkage = NoneVal

\* C6: for a title with "/" or of a "Requested entries" page the extractor
\* returns no records, and expands, parses and walks nothing.
C6_RejectedTitleReturnsNothing ==
    (IsRejectedTitle(page.title) /\ pc # "start") =>
        /\ pc = "done"
        /\ retval.none
        /\ calls = <<>>
        /\ stack = <<>>
        /\ emitted = <<>>

\* C7: no exception leaves the extraction of a page: for a page with no
\* body the caller gets "no records".
C7_NoBodyReturnsNothing ==
    /\ pc # "raised"
    /\ (page.body = NoneStr /\ pc # "start") => (pc = "done" /\ retval.none)

\* A page whose top nodes are sections that each hold one terminal list.
IsFlatPage ==
    \A i \in 1..Len(page.tree.children) :
        LET c == page.tree.children[i]
        IN  IF c.t = "node"
            THEN /\ c.kind \in LEVEL_KINDS
                 /\ Len(c.children) = 1
                 /\ IsTerminalList(c.children[1])
            ELSE FALSE

\* The records a flat page calls for: those of the list of every section
\* that is walked once a language is set, by the {{ws header}} or by a
\* language heading at or before the section.
RECURSIVE FlatPageCount(_, _)
FlatPageCount(sections, langSet) ==
    IF sections = <<>> THEN 0
    ELSE LET d == Disposition(node_to_text(Head(sections)), vocab)
             set == langSet \/ d = "language"
         IN  (IF set /\ d # "ignored"
              THEN ExpectedCount(Head(sections).children[1].children, NoneStr)
              ELSE 0)
             + FlatPageCount(Tail(sections), set)

\* C8: a terminal list met while the language is unset returns no records
\* and leaves the context alone, and the walk goes on: the lists met later,
\* once a language is set, still give their records.
C8_ListWithoutLanguage ==
    /\ [][(IsTerminalListCall /\ lang = NoneStr) =>
             /\ retval'.none /\ pc' = "ret"
             /\ UNCHANGED <<ctx, stack, emitted>>]_vars
    /\ []((pc = "done" /\ calls # <<>> /\ IsFlatPage) =>
             /\ ~retval.none
             /\ Len(Result) =
                  FlatPageCount(page.tree.children,
                                WsHeaderLang(page.body, 1) # NoneStr))

\* On the page Noun, English, Noun (side by side) the first list was met
\* with no language and the two after it gave their records.
C8_Witness ==
    /\ page.tree = SiblingPage(<<<<"N","o","u","n">>, <<"E","n","g","l","i","s","h">>, <<"N","o","u","n">>>>)
    /\ pc = "done"
    /\ "UNEXPECTED LIST WITHOUT LANG" \in logged
    /\ Len(Result) = 2

\* C9: every record has a relation type: the relation_type of the context
\* when its list is reached, "synonyms" when that is unset, also after a
\* language, sense or part-of-speech heading has cleared it.
C9_RelationTypeDefault ==
    /\ pc = "items" =>
          \A i \in 1..Len(Top.thesaurus) :
              Top.thesaurus[i].linkage =
                  IF linkage = NoneVal THEN "synonyms" ELSE linkage
    /\ pc = "done" => \A i \in 1..Len(Result) : Result[i].linkage # NoneVal

\* On the page English > Antonyms > Noun the part-of-speech heading cleared
\* the relation type and the record of the list has "synonyms".
C9_Witness ==
    /\ page.tree = ChainPage(<<<<"E","n","g","l","i","s","h">>, <<"A","n","t","o","n","y","m","s">>, <<"N","o","u","n">>>>)
    /\ pc = "done"
    /\ Len(Result) = 1
    /\ Result[1].linkage = "synonyms"
    /\ Result[1].pos = "noun"

\* The record of the term t with the sense s on the page "Thesaurus:cat"
\* under English with nothing else set.
PlainRecord(t, s) ==
    [entry |-> <<"c","a","t">>, language_code |-> <<"e","n">>, pos |-> NoneVal,
     linkage |-> "synonyms", term |-> t, tags |-> NoneStr, topics |-> NoneStr,
     roman |-> NoneStr, sense |-> s]

\* C10: an item "(S): rest" gives records with the sense S and terms from
\* rest only; an item with no marker gives records with the sense of the
\* context; no item changes the sense of the context.  "(formal): foo, bar"
\* and then "foo" under English and "Sense: big" give foo and bar with the
\* sense formal and foo with the sense big, all three synonyms.
C10_ItemSenseMarker ==
    /\ [][(IsAtItem /\ pc' = "items") =>
             LET w   == clean_node(Top.children[Top.i].children)
                 old == Top.thesaurus
                 new == stack'[Len(stack')].thesaurus
             IN  /\ sense' = sense
                 /\ SubSeq(new, 1, Len(old)) = old
                 /\ \A i \in (Len(old) + 1)..Len(new) :
                       IF SenseMarkerEnd(w) > 0
                       THEN /\ new[i].sense = SenseMarkerSense(w)
                            /\ Contains(SenseMarkerRest(w), new[i].term)
                       ELSE new[i].sense = sense]_vars
    /\ []((pc = "done" /\ page.tree = ItemPage(<<<<"(","f","o","r","m","a","l",")",":"," ","f","o","o",","," ","b","a","r">>, <<"f","o","o">>>>)) =>
             Result = <<PlainRecord(<<"f","o","o">>, <<"f","o","r","m","a","l">>),
                        PlainRecord(<<"b","a","r">>, <<"f","o","r","m","a","l">>),
                        PlainRecord(<<"f","o","o">>, <<"b","i","g">>)>>)

\* The list "(formal): foo, bar", "foo" has given its three records.
C10_Witness ==
    /\ page.tree = ItemPage(<<<<"(","f","o","r","m","a","l",")",":"," ","f","o","o",","," ","b","a","r">>, <<"f","o","o">>>>)
    /\ pc = "done"
    /\ Len(Result) = 3
    /\ Result[1].sense = <<"f","o","r","m","a","l">>
    /\ Result[3].sense = <<"b","i","g">>


\* The last position of w that holds the character c, 0 when none does.
RECURSIVE LastPos(_, _, _)
LastPos(w, i, c) ==
    IF i < 1 THEN 0 ELSE IF w[i] = c THEN i ELSE LastPos(w, i - 1, c)

\* The text of the parenthesized span an item text w ends with, NoneStr
\* when w does not end with one.
TrailingSpan(w) ==
    IF w = <<>> THEN NoneStr
    ELSE LET k == LastPos(w, Len(w), "(")
         IN  IF w[Len(w)] = ")" /\ k > 0
                /\ ~Contains(SubSeq(w, k + 1, Len(w) - 1), <<")">>)
             THEN SubSeq(w, k + 1, Len(w) - 1)
             ELSE NoneStr

\* The records the step of one list item has appended.
NewRecords ==
    SubSeq(stack'[Len(stack')].thesaurus, Len(Top.thesaurus) + 1,
           Len(stack'[Len(stack')].thesaurus))

\* C11: the parenthesized span an item ends with is taken out of the terms
\* of the item; the tags and topics it resolves to are on every record of
\* the item and the records of the other items stay as they are; a span
\* equal to the sense of the item gives no tags; a span with a
\* transliteration marker is not parsed and its text stays in the residue.
\* "baz (slang)" gives one record, term baz, tags with slang.
C11_TrailingQualifier ==
    /\ [][(IsAtItem /\ pc' = "items") =>
             LET w == clean_node(Top.children[Top.i].children)
                 q == TrailingSpan(w)
                 s == IF SenseMarkerEnd(w) > 0 THEN SenseMarkerSense(w)
                      ELSE sense
                 parsed == q # NoneStr /\ q # s /\ ~Contains(q, XLITS)
                 dt == IF parsed THEN parse_sense_qualifier(q)
                       ELSE [tags |-> <<>>, topics |-> <<>>]
             IN  /\ SubSeq(stack'[Len(stack')].thesaurus, 1,
                           Len(Top.thesaurus)) = Top.thesaurus
                 /\ \A i \in 1..Len(NewRecords) :
                       /\ NewRecords[i].tags = JoinOrNone(dt.tags)
                       /\ NewRecords[i].topics = JoinOrNone(dt.topics)
                       /\ q # NoneStr =>
                             /\ ~Contains(NewRecords[i].term, <<"(">>)
                             /\ ~Contains(NewRecords[i].term, <<")">>)
                             /\ parsed => ~Contains(NewRecords[i].term, q)
                 /\ (q # NoneStr /\ q # s /\ Contains(q, XLITS)) =>
                       Contains(ItemNormalized.w, Strip(q))]_vars
    /\ []((pc = "done" /\ page.tree = ItemPage(<<<<"b","a","z"," ","(","s","l","a","n","g",")">>>>)) =>
             /\ Len(Result) = 1
             /\ Result[1].term = <<"b","a","z">>
             /\ <<"s","l","a","n","g">> \in TagsOf(Result[1]))

\* The list "baz (slang)", "foo" has given two records: baz with the tag
\* slang and foo with no tags.
C11_Witness ==
    /\ page.tree = ItemPage(<<<<"b","a","z"," ","(","s","l","a","n","g",")">>, <<"f","o","o">>>>)
    /\ pc = "done"
    /\ Len(Result) = 2
    /\ Result[1].term = <<"b","a","z">> /\ Result[1].tags = <<"s","l","a","n","g">>
    /\ Result[2].term = <<"f","o","o">> /\ Result[2].tags = NoneStr

\* C12: when the language of the context resolves to no language code, the
\* terms of a terminal list still give their records, the language_code of
\* these records is absent, and the diagnostic is logged.
C12_UnresolvedLanguageLogged ==
    (pc = "items" /\ lang \notin DOMAIN vocab.langs /\ Top.thesaurus # <<>>) =>
        /\ \A i \in 1..Len(Top.thesaurus) :
              Top.thesaurus[i].language_code = NoneStr
        /\ "LANGUAGE NOT RECOGNIZED" \in logged

\* The terms of a sequence of records, in order.
TermsOf(recs) == [i \in 1..Len(recs) |-> recs[i].term]

\* The cleaned comma-split words of a residue, in comma order, the empty
\* ones left out.
RECURSIVE CandidateTerms(_)
CandidateTerms(parts) ==
    IF parts = <<>> THEN <<>>
    ELSE LET t == CleanTerm(XlitSplit(Head(parts)).w1)
         IN  (IF t = <<>> THEN <<>> ELSE <<t>>) \o CandidateTerms(Tail(parts))

\* The candidate terms of the items of a list, item after item.
RECURSIVE ListTerms(_)
ListTerms(children) ==
    IF children = <<>> THEN <<>>
    ELSE (IF IsListItem(Head(children))
          THEN CandidateTerms(
                   Split(NormalizeItem(clean_node(Head(children).children),
                                       NoneStr, NoneStr).w, ","))
          ELSE <<>>)
         \o ListTerms(Tail(children))

\* The sequences of a sequence, one after another.
RECURSIVE Concat(_)
Concat(ss) == IF ss = <<>> THEN <<>> ELSE Head(ss) \o Concat(Tail(ss))

\* The candidate terms of a page in document order: those of the terminal
\* lists, a container's argument content before its children.
RECURSIVE DocTerms(_)
RECURSIVE DocTermsOfAll(_)
DocTerms(x) ==
    IF x.t = "str" THEN <<>>
    ELSE IF IsTerminalList(x) THEN ListTerms(x.children)
    ELSE IF x.kind \in LEVEL_KINDS THEN DocTermsOfAll(x.children)
    ELSE (IF x.sarg # <<>> THEN <<>>
          ELSE DocTermsOfAll(Concat(x.largs)))
         \o DocTermsOfAll(x.children)

DocTermsOfAll(xs) ==
    IF xs = <<>> THEN <<>> ELSE DocTerms(Head(xs)) \o DocTermsOfAll(Tail(xs))

\* Whether s is t with some of its elements left out, the order kept.
RECURSIVE IsSubseq(_, _)
IsSubseq(s, t) ==
    IF s = <<>> THEN TRUE
    ELSE IF t = <<>> THEN FALSE
    ELSE IF Head(s) = Head(t) THEN IsSubseq(Tail(s), Tail(t))
    ELSE IsSubseq(s, Tail(t))

\* The page under English: a list "a, b", "c", then a container with a list
\* "d" in its arguments and a list "e" in its children, then a section Noun
\* with a list "f".
OrderPage ==
    Root(MainTitle,
         <<Level(1, <<"E","n","g","l","i","s","h">>,
                 <<ListOf(<<<<"a",","," ","b">>, <<"c">>>>), ArgsContainer,
                   Level(2, <<"N","o","u","n">>, <<ListOf(<<<<"f">>>>)>>)>>)>>)

\* C13: the records of a page are in document order: their terms are the
\* candidate terms of the page in document order with some left out, where
\* a sequence gives its elements' terms one after another, a container
\* those of its argument content before those of its children, a list those
\* of its items in item order and of an item in comma order.
C13_DocumentOrder ==
    /\ pc = "done" => IsSubseq(TermsOf(Result), DocTerms(page.tree))
    /\ (pc = "done" /\ page.tree = OrderPage) =>
          TermsOf(Result) = <<<<"a">>, <<"b">>, <<"c">>, <<"d">>, <<"e">>, <<"f">>>>

\* The page of distinct terms has given its six records.
C13_Witness ==
    /\ page.tree = OrderPage
    /\ pc = "done"
    /\ Len(Result) = 6
    /\ Result[4].term = <<"d">>
    /\ Result[5].term = <<"e">>

\* C14: no state crosses pages: a page processed after other pages gives
\* what it gave when it was the first page of the worker: the same records,
\* or the same failure.
C14_NoCrossPageState ==
    (IF first = NoFirst THEN FALSE ELSE page = first[1].page) =>
        /\ pc = "done" => (first[1].pc = "done" /\ retval = first[1].retval)
        /\ pc = "raised" => first[1].pc = "raised"

\* The page with a list and no language heading was the first page of the
\* worker and gave nothing; it has been processed again after other pages
\* and gave nothing again.
C14_Witness ==
    /\ first # NoFirst
    /\ first[1].page.tree = Root(MainTitle, <<QuxList>>)
    /\ first[1].page.body = PlainBody
    /\ page = first[1].page
    /\ pc = "done"
    /\ lang = NoneStr
    /\ Result = <<>>
    /\ "UNEXPECTED LIST WITHOUT LANG" \in logged

\* The context after a heading with the text s, by the rule d of the
\* dispatch, when it was c before.
AfterHeading(c, d, s) ==
    CASE d = "language" ->
            [lang |-> s, pos |-> NoneVal, sense |-> NoneStr, linkage |-> NoneVal]
      [] d = "sense" ->
            [c EXCEPT !.sense = Drop(s, Len(SensePrefix)), !.linkage = NoneVal]
      [] d = "linkage" ->
            [c EXCEPT !.linkage = vocab.LINKAGE_SUBTITLES[Lower(s)]]
      [] d = "pos" ->
            [c EXCEPT !.pos = vocab.POS_SUBTITLES[Lower(s)],
                      !.sense = NoneStr, !.linkage = NoneVal]
      [] OTHER -> c

\* The record the list of qux gives in the context c.
QuxRecord(c) ==
    [entry |-> EntryWord(page.title),
     language_code |-> vocab.langs[c.lang],
     pos |-> c.pos,
     linkage |-> IF c.linkage = NoneVal THEN "synonyms" ELSE c.linkage,
     term |-> <<"q","u","x">>, tags |-> NoneStr, topics |-> NoneStr,
     roman |-> NoneStr, sense |-> c.sense]

\* The records of the sections of a flat page whose lists all are the list
\* of qux, read in document order from the context c on: each list gives
\* one record with what the headings read so far have last written.
RECURSIVE FlatRecords(_, _)
FlatRecords(sections, c) ==
    IF sections = <<>> THEN <<>>
    ELSE LET s == node_to_text(Head(sections))
             d == Disposition(s, vocab)
             n == AfterHeading(c, d, s)
         IN  (IF n.lang = NoneStr \/ d = "ignored" THEN <<>>
              ELSE <<QuxRecord(n)>>)
             \o FlatRecords(Tail(sections), n)

\* A flat page whose lists all are the list of qux, with no {{ws header}}.
IsQuxFlatPage ==
    /\ IsFlatPage
    /\ \A i \in 1..Len(page.tree.children) :
          page.tree.children[i].children = <<QuxList>>
    /\ WsHeaderLang(page.body, 1) = NoneStr

\* C15: the context is not rolled back when the walk of a subtree returns:
\* only the step that classifies a heading changes language, part of
\* speech, sense or relation type, and a list visited later in document
\* order gives records with what the headings visited so far have last
\* written to each field.
C15_ContextNotRolledBack ==
    /\ [][(pc # "start" /\ ~IsHeadingCall) =>
             UNCHANGED <<lang, pos, sense, linkage>>]_vars
    /\ []((pc = "done" /\ calls # <<>> /\ IsQuxFlatPage) =>
             Result = FlatRecords(page.tree.children,
                                  [lang |-> NoneStr, pos |-> NoneVal,
                                   sense |-> NoneStr, linkage |-> NoneVal]))

\* On the page English, Noun, Sense: big, Antonyms (side by side) the list
\* of the fourth section has given a record with what the three sections
\* before it have left in the context.
C15_Witness ==
    /\ page.tree = SiblingPage(<<<<"E","n","g","l","i","s","h">>, <<"N","o","u","n">>, <<"S","e","n","s","e",":"," ","b","i","g">>, <<"A","n","t","o","n","y","m","s">>>>)
    /\ pc = "done"
    /\ Len(Result) = 4
    /\ Result[4].language_code = <<"e","n">>
    /\ Result[4].pos = "noun"
    /\ Result[4].sense = <<"b","i","g">>
    /\ Result[4].linkage = "antonyms"

\* Whether the text of some heading of a chain of sections is, lower-cased,
\* one of the sections that are not walked.
RECURSIVE ChainHasIgnored(_)
ChainHasIgnored(node) ==
    IF node.t # "node" THEN FALSE
    ELSE IF node.kind \in LEVEL_KINDS
    THEN \/ Lower(node_to_text(node)) \in IgnoredSections
         \/ (node.children # <<>> /\ ChainHasIgnored(node.children[1]))
    ELSE FALSE

\* recurse is entered with a heading whose lower-cased text is one of the
\* ignored sections (and that is no language name, which comes first).
IsIgnoredHeadingCall ==
    IF IsHeadingCall
    THEN /\ Lower(node_to_text(cur)) \in
              {<<"f","u","r","t","h","e","r"," ","r","e","a","d","i","n","g">>, <<"e","x","t","e","r","n","a","l"," ","l","i","n","k","s">>, <<"r","e","f","e","r","e","n","c","e","s">>,
               <<"t","r","a","n","s","l","a","t","i","o","n","s">>, <<"n","o","t","e","s">>, <<"u","s","a","g","e">>, <<"w","o","r","k"," ","t","o"," ","b","e"," ","d","o","n","e">>,
               <<"q","u","a","n","t","i","f","i","c","a","t","i","o","n">>, <<"a","b","b","r","e","v","i","a","t","i","o","n">>, <<"s","y","m","b","o","l">>}
         /\ node_to_text(cur) \notin DOMAIN vocab.langs
    ELSE FALSE

\* C16: a heading of an ignored section stops the descent: its call returns
\* at once with nothing, the whole context (language, part of speech, sense,
\* relation type, inherited tags) is what it was, and no list beneath it
\* gives a record: a page that is one chain of sections with such a heading
\* in it yields no records.
C16_IgnoredSectionStops ==
    /\ [][IsIgnoredHeadingCall =>
             /\ pc' = "ret" /\ retval'.none
             /\ UNCHANGED <<ctx, stack, emitted>>]_vars
    /\ []((pc = "done" /\ IsChainPage /\ ChainHasIgnored(page.tree.children[1])) =>
             Result = <<>> /\ emitted = <<>>)

\* On the page English > Noun > Symbol the walk is over: the list beneath
\* Symbol gave nothing and the context is what Noun left.
C16_Witness ==
    /\ page.tree = ChainPage(<<<<"E","n","g","l","i","s","h">>, <<"N","o","u","n">>, <<"S","y","m","b","o","l">>>>)
    /\ pc = "done"
    /\ Result = <<>>
    /\ lang = <<"E","n","g","l","i","s","h">> /\ pos = "noun"

\* C17: the headings that do not reset: a relation-type heading changes
\* relation_type only; a tag-only heading changes inherited_tags only; a
\* sense heading changes sense, to what follows the "Sense:" prefix in its
\* text, and relation_type, which it unsets, only; none of them changes
\* language or part_of_speech, and each walks on into its children.
C17_NonResettingHeadings ==
    /\ [][IsHeadingCall =>
             LET s == node_to_text(cur)
                 r == BestRule(s, vocab)
             IN  /\ r \in {"linkage", "tags", "sense"} =>
                       /\ UNCHANGED <<lang, pos>>
                       /\ Descended
                 /\ r = "linkage" =>
                       /\ linkage' = vocab.LINKAGE_SUBTITLES[Lower(s)]
                       /\ UNCHANGED <<sense, subtitle_tags>>
                 /\ r = "tags" => UNCHANGED <<sense, linkage>>
                 /\ r = "sense" =>
                       /\ sense' = SubSeq(s, Len(<<"S","e","n","s","e",":"," ">>) + 1, Len(s))
                       /\ linkage' = NoneVal
                       /\ UNCHANGED subtitle_tags]_vars
    /\ []((pc = "done" /\ page.tree = ChainPage(<<<<"E","n","g","l","i","s","h">>, <<"A","n","t","o","n","y","m","s">>, <<"S","l","a","n","g">>>>)) =>
             /\ Len(Result) = 1
             /\ Result[1].linkage = "antonyms"
             /\ Result[1].language_code = <<"e","n">>)
    /\ []((pc = "done" /\ page.tree = SiblingPage(<<<<"E","n","g","l","i","s","h">>, <<"N","o","u","n">>, <<"A","n","t","o","n","y","m","s">>, <<"S","e","n","s","e",":"," ","b","i","g">>>>)) =>
             /\ Len(Result) = 4
             /\ Result[3].pos = "noun" /\ Result[3].linkage = "antonyms"
             /\ Result[3].sense = NoneStr
             /\ Result[4].pos = "noun" /\ Result[4].linkage = "synonyms"
             /\ Result[4].sense = <<"b","i","g">>)

\* On the page English, Noun, Antonyms, Sense: big (side by side) the sense
\* heading has been classified: the relation type Antonyms had set is unset,
\* the sense is big, language and part of speech are as they were.
C17_Witness ==
    /\ page.tree = SiblingPage(<<<<"E","n","g","l","i","s","h">>, <<"N","o","u","n">>, <<"A","n","t","o","n","y","m","s">>, <<"S","e","n","s","e",":"," ","b","i","g">>>>)
    /\ pc = "call"
    /\ cur = PyList(<<QuxList>>)
    /\ Top.i = 4
    /\ lang = <<"E","n","g","l","i","s","h">> /\ pos = "noun"
    /\ sense = <<"b","i","g">> /\ linkage = NoneVal

\* C18: a tag-only heading merges its tags into inherited_tags: after it is
\* classified, inherited_tags holds every tag it held before and the tags
\* of the heading; beneath Slang, the heading People (no tags) leaves slang
\* in inherited_tags.
C18_TagHeadingsMerge ==
    [][(IF IsHeadingCall THEN BestRule(node_to_text(cur), vocab) = "tags"
        ELSE FALSE) =>
          /\ Range(subtitle_tags) \subseteq Range(subtitle_tags')
          /\ Range(IGNORED_SUBTITLE_TAGS_MAP[Lower(node_to_text(cur))])
                \subseteq Range(subtitle_tags')]_vars

\* The records of a chain of sections around the list of qux, read from
\* the context c on, a heading that matches no rule being left out: what is
\* beneath it is read as if it stood in the heading's place.
RECURSIVE ChainRecords(_, _)
ChainRecords(node, c) ==
    IF node.kind \notin LEVEL_KINDS
    THEN (IF c.lang = NoneStr THEN <<>> ELSE <<QuxRecord(c)>>)
    ELSE LET s == node_to_text(node)
             d == BestRule(s, vocab)
         IN  IF d = "ignored" THEN <<>>
             ELSE IF d = "unhandled" THEN ChainRecords(node.children[1], c)
             ELSE ChainRecords(node.children[1], AfterHeading(c, d, s))

\* A chain of sections around the list of qux.
RECURSIVE IsQuxChain(_)
IsQuxChain(node) ==
    IF node.t # "node" THEN FALSE
    ELSE IF node.kind \in LEVEL_KINDS
    THEN Len(node.children) = 1 /\ IsQuxChain(node.children[1])
    ELSE node = QuxList

\* C19: a heading that matches none of the six rules leaves the whole
\* context as it was and its children are walked: the records of its
\* subtree are those the children give when walked in its place, in the
\* same context.
C19_UnknownHeadingFailsOpen ==
    /\ [][(IF IsHeadingCall
           THEN BestRule(node_to_text(cur), vocab) = "unhandled" ELSE FALSE) =>
             UNCHANGED ctx /\ Descended]_vars
    /\ []((/\ pc = "done" /\ calls # <<>>
           /\ Len(page.tree.children) = 1
           /\ IsQuxChain(page.tree.children[1])
           /\ WsHeaderLang(page.body, 1) = NoneStr) =>
             Result = ChainRecords(page.tree.children[1],
                                   [lang |-> NoneStr, pos |-> NoneVal,
                                    sense |-> NoneStr, linkage |-> NoneVal]))

\* On the page English > Misc > Antonyms the walk is over: Misc matched no
\* rule and the list beneath it gave its record.
C19_Witness ==
    /\ page.tree = ChainPage(<<<<"E","n","g","l","i","s","h">>, <<"M","i","s","c">>, <<"A","n","t","o","n","y","m","s">>>>)
    /\ pc = "done"
    /\ "UNHANDLED SUBTITLE" \in logged
    /\ Len(Result) = 1
    /\ Result[1].linkage = "antonyms"

\* Whether some node below x, or x, is a list node.
RECURSIVE HasListBelow(_)
HasListBelow(x) ==
    IF x.t # "node" THEN FALSE
    ELSE \E i \in 1..Len(x.children) :
            LET c == x.children[i]
            IN  IF c.t = "node" THEN c.kind = "LIST" \/ HasListBelow(c)
                ELSE FALSE

\* C20: only terminal lists emit records: the loop over list items is
\* entered for a list node with no list below it only; every record a call
\* of recurse holds or returns, but for the list being processed, has been
\* returned by a terminal list; a list with a nested list is walked as a
\* container, so the text of its own items gives no record and the nested
\* terminal list gives its own: English > list("outer" > list("inner"))
\* yields the one record inner.
C20_OnlyTerminalListsEmit ==
    /\ [][(pc # "items" /\ pc' = "items") =>
             /\ cur.t = "node" /\ cur.kind = "LIST" /\ ~HasListBelow(cur)
             /\ stack'[Len(stack')].thesaurus = <<>>]_vars
    /\ [](\A k \in 1..Len(stack) :
             (stack[k].f # "items") =>
                 Range(stack[k].thesaurus) \subseteq Range(emitted))
    /\ []((pc \in {"ret", "done"}) =>
             Range(retval.recs) \subseteq Range(emitted))
    /\ []((pc = "done" /\ page.tree = Root(MainTitle, <<Level(1, <<"E","n","g","l","i","s","h">>, <<NestedList>>)>>)) =>
             TermsOf(Result) = <<<<"i","n","n","e","r">>>>)

\* The page English > list("outer" > list("inner")) has given its one
\* record, for inner.
C20_Witness ==
    /\ page.tree = Root(MainTitle, <<Level(1, <<"E","n","g","l","i","s","h">>, <<NestedList>>)>>)
    /\ pc = "done"
    /\ Len(Result) = 1
    /\ Result[1].term = <<"i","n","n","e","r">>

\* C21: the extraction of a transliteration is idempotent: a record whose
\* transliteration was taken from between the paired XLITS and XLITE has a
\* term with no sentinel in it, and the extraction applied to that term
\* finds no transliteration and leaves the term as it is.
C21_TransliterationIdempotent ==
    pc = "done" =>
        \A i \in 1..Len(Result) :
            Result[i].roman # NoneStr =>
                /\ ~Contains(Result[i].term, XLITS)
                /\ ~Contains(Result[i].term, XLITE)
                /\ XlitSplit(Result[i].term) =
                       [w1 |-> Result[i].term, xlit |-> NoneStr]

\* The characters that open and that close a double-quoted text.
OpeningQuotes == {"\"", "LDQUO"}
ClosingQuotes == {"\"", "RDQUO"}

\* The position of the first opening quote of w that a closing quote
\* follows, 0 when there is none.
RECURSIVE GlossStart(_, _)
GlossStart(w, i) ==
    IF i >= Len(w) THEN 0
    ELSE IF w[i] \in OpeningQuotes
            /\ FirstOf(w, i + 1, ClosingQuotes) <= Len(w)
    THEN i
    ELSE GlossStart(w, i + 1)

\* The text between the quotes of the double-quoted gloss of w.
GlossText(w) ==
    SubSeq(w, GlossStart(w, 1) + 1,
           FirstOf(w, GlossStart(w, 1) + 1, ClosingQuotes) - 1)

\* C22: the double-quoted gloss of a list item, with its quotes, is taken
\* out of the item before the qualifier is looked for and the terms are
\* split: no term of the item holds a double quote or the text of the
\* gloss.
C22_GlossStripped ==
    [][(IsAtItem /\ pc' = "items") =>
          LET w == clean_node(Top.children[Top.i].children)
          IN  GlossStart(w, 1) > 0 =>
                 \A i \in 1..Len(NewRecords) :
                    /\ \A k \in 1..Len(NewRecords[i].term) :
                          NewRecords[i].term[k] \notin
                              (OpeningQuotes \cup ClosingQuotes)
                    /\ ~Contains(NewRecords[i].term, GlossText(w))]_vars

\* The most steps the call recurse(x) takes until it returns, when every
\* node below x is walked once: a heading's children once, a container's
\* argument content and children once each, a list item once.
RECURSIVE WalkSteps(_)
RECURSIVE WalkStepsOfAll(_)
WalkSteps(x) ==
    IF x.t = "str" THEN 1
    ELSE IF x.t = "list" THEN 1 + WalkStepsOfAll(x.items)
    ELSE IF IsTerminalList(x) THEN 2 + Len(x.children)
    ELSE IF x.kind \in LEVEL_KINDS THEN 1 + WalkSteps(PyList(x.children))
    ELSE 3 + WalkSteps(ArgsOf(x)) + WalkSteps(PyList(x.children))

\* The steps of the walks of the elements xs of a list, with the step that
\* follows each.
WalkStepsOfAll(xs) ==
    IF xs = <<>> THEN 0
    ELSE WalkSteps(Head(xs)) + 1 + WalkStepsOfAll(Tail(xs))

\* The steps the waiting call fr still takes, at most, once the call it
\* waits for has returned.
FrameSteps(fr) ==
    IF fr.f = "list"
    THEN 1 + WalkStepsOfAll(SubSeq(fr.items, fr.i + 1, Len(fr.items)))
    ELSE IF fr.f = "container"
    THEN (IF fr.phase = "args"
          THEN 2 + WalkSteps(PyList(fr.node.children)) ELSE 1)
    ELSE 2 + Len(fr.children) - fr.i

\* The steps the calls of the stack st still take, at most.
RECURSIVE StackSteps(_)
StackSteps(st) ==
    IF st = <<>> THEN 0 ELSE FrameSteps(Head(st)) + StackSteps(Tail(st))

\* The steps the walk still takes, at most.
StepsLeft ==
    IF pc = "call" THEN WalkSteps(cur) + StackSteps(stack) + 1
    ELSE IF pc \in {"items", "ret"} THEN StackSteps(stack) + 1
    ELSE 0

\* C23: the walk terminates on every finite tree: every step of the walk
\* uses up one of the steps that walking each node below once allows, and
\* the walk, once begun, leads to the return of its list of records.
C23_WalkTerminates ==
    /\ [][(pc \in {"call", "items", "ret"}) => StepsLeft' < StepsLeft]_vars
    /\ ((pc = "call") ~> (pc = "done" /\ ~retval.none))

\* The walk of the page that meets every kind of node has returned its
\* list.
C23_Witness ==
    /\ page.tree = OrderPage
    /\ pc = "done"
    /\ ~retval.none
    /\ StepsLeft = 0

\* ------------------------------------------------------------ es/page.py

\* A node of the parse tree as es/page.py uses it.  kind is the NodeKind
\* ("STR" for a str child); name is template_name of a template and sarg
\* of a list; arg1 is template_parameters.get(1); text is what clean_node
\* makes of the node; cats are the categories clean_node collects from it;
\* title and templates are what clean_node and find_content(TEMPLATE) make
\* of the largs of a heading.
EsNode(kind, name, arg1, text, cats, title, templates, children) ==
    [kind |-> kind, name |-> name, arg1 |-> arg1, text |-> text, cats |-> cats,
     title |-> title, templates |-> templates, children |-> children]

EsStr(text) == EsNode("STR", <<>>, "", text, <<>>, <<>>, <<>>, <<>>)

EsLink(text) == EsNode("LINK", <<>>, "", text, <<>>, <<>>, <<>>, <<>>)

\* [[Categoría:c]]
EsCategoryLink(c) == EsNode("LINK", <<>>, "", "", <<c>>, <<>>, <<>>, <<>>)

EsTemplate(name, arg1, text) ==
    EsNode("TEMPLATE", name, arg1, text, <<>>, <<>>, <<>>, <<>>)

EsList(sarg, text, children) ==
    EsNode("LIST", sarg, "", text, <<>>, <<>>, <<>>, children)

\* A section: its heading holds the text title, the templates named
\* templates and links to the categories cats.
EsLevel(kind, title, templates, cats, text, children) ==
    EsNode(kind, <<>>, "", text, cats, title,
           [i \in 1..Len(templates) |-> EsTemplate(templates[i], "", "")],
           children)

\* wxr.config.LINKAGE_SUBTITLES of the Spanish edition.
EsLinkageSubtitles ==
    {[k |-> <<"s","i","n","OACUTE","n","i","m","o","s">>, v |-> "synonyms"],
     [k |-> <<"a","n","t","OACUTE","n","i","m","o","s">>, v |-> "antonyms"]}

\* wxr.config.POS_SUBTITLES of the Spanish edition.
EsPosSubtitles ==
    {[k |-> <<"s","u","s","t","a","n","t","i","v","o"," ","m","a","s","c","u","l","i","n","o">>, v |-> "noun"],
     [k |-> <<"v","e","r","b","o">>, v |-> "verb"]}

\* wxr.config.OTHER_SUBTITLES of the Spanish edition.
EsOtherSubtitles ==
    [ignored_sections |-> {<<"r","e","f","e","r","e","n","c","i","a","s"," ","y"," ","n","o","t","a","s">>},
     etymology |-> {<<"e","t","i","m","o","l","o","g","IACUTE","a">>},
     translations |-> {<<"t","r","a","d","u","c","c","i","o","n","e","s">>}]

\* key in table, table[key]
InTable(table, key) == \E e \in table : e.k = key
Lookup(table, key) == (CHOOSE e \in table : e.k = key).v

\* \d of the re module.
IsDigit(c) == c \in {"0","1","2","3","4","5","6","7","8","9"}

\* Line 135: re.match(r"etimología \d+", section_title).
IsNumberedEtymology(section_title) ==
    LET p == <<"e","t","i","m","o","l","o","g","IACUTE","a"," ">>
    IN  /\ StartsWith(section_title, p)
        /\ Len(section_title) > Len(p)
        /\ IsDigit(section_title[Len(p) + 1])

\* Line 127: clean_node(wxr, base_data, level_node.largs).lower()
section_title_of(level_node) == Lower(level_node.title)

\* Lines 130-132: the name of the last template of the heading, <<>> for
\* None.
pos_template_name_of(level_node) ==
    IF level_node.templates = <<>> THEN <<>>
    ELSE level_node.templates[Len(level_node.templates)].name

\* Lines 135-181: the branch of parse_section a section takes.
SectionBranch(level_node) ==
    LET section_title == section_title_of(level_node)
        pos_template_name == pos_template_name_of(level_node)
    IN  IF IsNumberedEtymology(section_title) THEN "numbered"
        ELSE IF section_title \in EsOtherSubtitles.ignored_sections
        THEN "ignored"
        ELSE IF (pos_template_name # <<>>
                   /\ InTable(EsPosSubtitles, pos_template_name))
                \/ InTable(EsPosSubtitles, section_title)
        THEN "pos"
        ELSE IF section_title \in EsOtherSubtitles.etymology THEN "etymology"
        ELSE IF section_title \in EsOtherSubtitles.translations
        THEN "translations"
        ELSE IF InTable(EsLinkageSubtitles, section_title) THEN "linkage"
        ELSE "other"

\* Lines 59-63.
next_level_kind(level_node) ==
    IF level_node.kind = "LEVEL2" THEN "LEVEL3" ELSE "LEVEL4"

\* The elements of nodes of the kind given, and the others, in order.
RECURSIVE FindChild(_, _)
FindChild(nodes, kind) ==
    IF nodes = <<>> THEN <<>>
    ELSE (IF Head(nodes).kind = kind THEN <<Head(nodes)>> ELSE <<>>)
             \o FindChild(Tail(nodes), kind)

RECURSIVE InvertFindChild(_, _)
InvertFindChild(nodes, kind) ==
    IF nodes = <<>> THEN <<>>
    ELSE (IF Head(nodes).kind # kind THEN <<Head(nodes)>> ELSE <<>>)
             \o InvertFindChild(Tail(nodes), kind)

\* node.find_child_recursively(kind): the descendants of the kind given,
\* a node before the nodes below it.
RECURSIVE FindChildRecursively(_, _)
FindChildRecursively(nodes, kind) ==
    IF nodes = <<>> THEN <<>>
    ELSE (IF Head(nodes).kind = kind THEN <<Head(nodes)>> ELSE <<>>)
             \o FindChildRecursively(Head(nodes).children, kind)
             \o FindChildRecursively(Tail(nodes), kind)

\* Line 71 and line 105.
NotSubLevel(level_node) ==
    InvertFindChild(level_node.children, next_level_kind(level_node))

SubLevel(level_node) ==
    FindChild(level_node.children, next_level_kind(level_node))

\* Lines 374-377: WordEntry(lang=lang, lang_code=lang_code, word=title) with
\* the categories of the heading; the other fields hold their defaults.
\* linkages holds, in the order of their appending, what the lists of the
\* linkage fields hold.
WordEntry(lang_name, lang_code, title, categories) ==
    [word |-> title, lang_code |-> lang_code, lang |-> lang_name,
     pos |-> NoneVal, pos_title |-> NoneStr, senses |-> <<>>,
     categories |-> categories, sounds |-> <<>>, spellings |-> <<>>,
     etymology_text |-> NoneVal, translations |-> <<>>, linkages |-> <<>>]

\* clean_node(wxr, data, node) for its effect on data: the categories of
\* the node are appended to data's.
CollectCategories(entry, node) ==
    [entry EXCEPT !.categories = entry.categories \o node.cats]

\* es/pronunciation.py, process_pron_graf_template, for a template whose
\* only parameter is fone: one Sound with the value as its ipa, none for
\* the value "...", and no spellings.  Lines 100-101 assign both fields.
\* (The version of pronunciation.py at hand is written for the list of
\* entries and assigns to its last element; page.py line 78 passes the
\* entry.)
process_pron_graf_template(entry, template_node) ==
    [entry EXCEPT
        !.sounds = IF template_node.text = "..." THEN <<>>
                   ELSE <<[ipa |-> template_node.text, audio |-> ""]>>,
        !.spellings = <<>>]

\* process_audio_template of es/pronunciation.py: a Sound with the file
\* named by the template is appended to the sounds of the entry.
process_audio_template(entry, template_node) ==
    [entry EXCEPT
        !.sounds = entry.sounds \o <<[ipa |-> "", audio |-> template_node.text]>>]

\* Lines 87-94: the audio templates of a ":*" list, one after another.
RECURSIVE ProcessAudioTemplates(_, _)
ProcessAudioTemplates(entry, templates) ==
    IF templates = <<>> THEN entry
    ELSE ProcessAudioTemplates(
             IF Head(templates).name = <<"a","u","d","i","o">>
             THEN process_audio_template(entry, Head(templates))
             ELSE entry,
             Tail(templates))

\* process_etymology_block of es/etymology.py: the text of the section
\* becomes the etymology of the entry.
process_etymology_block(entry, level_node) ==
    [entry EXCEPT !.etymology_text = level_node.text]

\* es/translation.py, extract_translation, for a template with the
\* language code and one word: lines 80-87 and 94-95 append a Translation.
extract_translation(entry, template_node) ==
    [entry EXCEPT
        !.translations = entry.translations \o
            <<[word |-> template_node.text, lang_code |-> template_node.arg1]>>]

\* Lines 166-170: the t+ templates of the section, one after another.
RECURSIVE ExtractTranslations(_, _)
ExtractTranslations(entry, templates) ==
    IF templates = <<>> THEN entry
    ELSE ExtractTranslations(
             IF Head(templates).name = <<"t","+">>
             THEN extract_translation(entry, Head(templates))
             ELSE entry,
             Tail(templates))

\* es/linkage.py lines 17-20 and 22-26: the words of the nodes given that
\* are not empty, as Linkage(word=word) under linkage_type.
RECURSIVE LinkageWords(_, _)
LinkageWords(nodes, linkage_type) ==
    IF nodes = <<>> THEN <<>>
    ELSE (IF Head(nodes).text # ""
          THEN <<[type |-> linkage_type, word |-> Head(nodes).text]>>
          ELSE <<>>)
             \o LinkageWords(Tail(nodes), linkage_type)

\* The templates among nodes that are named l, line 23.
RECURSIVE TemplatesNamedL(_)
TemplatesNamedL(nodes) ==
    IF nodes = <<>> THEN <<>>
    ELSE (IF Head(nodes).name = <<"l">> THEN <<Head(nodes)>> ELSE <<>>)
             \o TemplatesNamedL(Tail(nodes))

\* es/linkage.py, extract_linkage: the links of the section, then its l
\* templates.
extract_linkage(data_container, node, linkage_type) ==
    [data_container EXCEPT
        !.linkages = data_container.linkages
            \o LinkageWords(FindChildRecursively(node.children, "LINK"),
                            linkage_type)
            \o LinkageWords(
                   TemplatesNamedL(FindChildRecursively(node.children, "TEMPLATE")),
                   linkage_type)]

\* extract_gloss of es/gloss.py: the gloss of a ";" list becomes a Sense
\* of the last entry.
extract_gloss(entry, list_node) ==
    [entry EXCEPT
        !.senses = entry.senses \o
            <<[glosses |-> <<list_node.text>>, categories |-> <<>>]>>]

\* Lines 248-338, process_sense_children, for nodes that are str: they
\* form one group, whose head is no WikiNode, and lines 324-328 log it.
process_sense_children(sense_children) ==
    IF sense_children = <<>> THEN {} ELSE {"UNEXPECTED GROUP"}

\* Lines 202-244: the loop of process_pos_block from the child at k on,
\* over child nodes that are ";" lists, str or links to a category.  st
\* holds the entry page_data[-1], sense_children and what was logged.
RECURSIVE PosBlockFrom(_, _, _)
PosBlockFrom(child_nodes, k, st) ==
    IF k > Len(child_nodes) THEN st
    ELSE LET child == child_nodes[k]
         IN  PosBlockFrom(child_nodes, k + 1,
               IF child.kind = "LIST" /\ child.name = <<";">>
               THEN [entry |-> extract_gloss(st.entry, child),
                     sense_children |-> <<>>,
                     logged |-> st.logged
                                  \cup process_sense_children(st.sense_children)]
               ELSE IF st.entry.senses # <<>>
               THEN [st EXCEPT !.sense_children = Append(@, child)]
               ELSE IF child.kind = "LINK" /\ child.cats # <<>>
               THEN [st EXCEPT !.entry = CollectCategories(@, child)]
               ELSE [st EXCEPT !.logged = @ \cup {"UNEXPECTED NODE IN POS BLOCK"}])

\* filter_empty_str_child, line 196.
RECURSIVE FilterEmptyStrChild(_)
FilterEmptyStrChild(nodes) ==
    IF nodes = <<>> THEN <<>>
    ELSE (IF Head(nodes).kind = "STR" /\ Head(nodes).text = ""
          THEN <<>> ELSE <<Head(nodes)>>)
             \o FilterEmptyStrChild(Tail(nodes))

\* Lines 184-245, process_pos_block: the entry page_data[-1] after it, and
\* what it logged.
process_pos_block(entry, pos_level_node) ==
    LET st == PosBlockFrom(FilterEmptyStrChild(pos_level_node.children), 1,
                           [entry |-> entry, sense_children |-> <<>>,
                            logged |-> {}])
    IN  [entry |-> st.entry,
         logged |-> st.logged \cup process_sense_children(st.sense_children)]

\* ------------------------------------------- parse_page and parse_entries

\* What the loop of parse_page (f = "page": i counts the level-2 nodes, j
\* the templates of the heading) or a call of parse_entries (f = "entries":
\* ph is "pre" in the loop of line 71 and "sub" in the loop of line 105, i
\* counts the nodes of the loop) keeps.  base and copy refer to base_data
\* and base_data_copy; path names the sections the call is for.
EsFrame(f, node, base, copy, ph, i, j, unexpected, path) ==
    [f |-> f, node |-> node, base |-> base, copy |-> copy, ph |-> ph, i |-> i,
     j |-> j, unexpected |-> unexpected, path |-> path]

EsTop == es_stack[Len(es_stack)]

EsSetTop(fr) == [es_stack EXCEPT ![Len(es_stack)] = fr]

EsNextI == EsSetTop([EsTop EXCEPT !.i = @ + 1])

\* copy.deepcopy(x) of the object ref refers to: a new object that holds
\* what x holds.
deepcopy(h, ref) == [heap |-> Append(h, h[ref]), ref |-> Len(h) + 1]

\* base_data_copy as another name of base_data: no copy is made.
base_data_copy_Alias(h, base_data) == [heap |-> h, ref |-> base_data]

\* Line 67: base_data_copy = copy.deepcopy(base_data).
base_data_copy(h, base_data) == deepcopy(h, base_data)

\* Lines 59-69: parse_entries is entered for level_node with base_data.
EnterEntries(h, base_data, level_node, path) ==
    LET c == base_data_copy(h, base_data)
    IN  [heap |-> c.heap,
         frame |-> EsFrame("entries", level_node, base_data, c.ref, "pre", 1, 1,
                           FALSE, path)]

\* Lines 341-358: parse_page is called; page_data = [].
ParsePage ==
    /\ es_pc = "start"
    /\ es_pc' = "run"
    /\ es_stack' = <<EsFrame("page", EsStr(""), 0, 0, "page", 1, 1, FALSE, <<>>)>>
    /\ page_data' = <<>>
    /\ UNCHANGED <<thvars, es_page, heap, es_origin, es_logged, es_result>>

\* tree.find_child(NodeKind.LEVEL2), line 359.
Level2Nodes == FindChild(es_page.tree, "LEVEL2")

\* In the loop of line 359, at a level-2 node.
InLanguageLoop ==
    /\ es_pc = "run"
    /\ EsTop.f = "page"
    /\ EsTop.i <= Len(Level2Nodes)

\* Lines 363-370: the template is lengua and its language is captured.
IsCapturedLanguage(subtitle_template) ==
    /\ subtitle_template.name = <<"l","e","n","g","u","a">>
    /\ IF es_page.config.capture_language_codes = <<>> THEN TRUE
       ELSE subtitle_template.arg1 \in es_page.config.capture_language_codes[1]

\* Lines 360-370: a template of the heading that is not lengua, or whose
\* language is not captured, is passed over.
LanguageSkip ==
    /\ InLanguageLoop
    /\ EsTop.j <= Len(Level2Nodes[EsTop.i].templates)
    /\ ~IsCapturedLanguage(Level2Nodes[EsTop.i].templates[EsTop.j])
    /\ es_stack' = EsSetTop([EsTop EXCEPT !.j = @ + 1])
    /\ UNCHANGED <<thvars, es_page, es_pc, heap, page_data, es_origin,
                   es_logged, es_result>>

\* Lines 363-378 and 59-69: base_data is made for the language and
\* parse_entries is called with it.
LanguageEntries ==
    /\ InLanguageLoop
    /\ EsTop.j <= Len(Level2Nodes[EsTop.i].templates)
    /\ IsCapturedLanguage(Level2Nodes[EsTop.i].templates[EsTop.j])
    /\ LET subtitle_template == Level2Nodes[EsTop.i].templates[EsTop.j]
           base_data == WordEntry(subtitle_template.text, subtitle_template.arg1,
                                  es_page.title, subtitle_template.cats)
           h == Append(heap, base_data)
           e == EnterEntries(h, Len(h), Level2Nodes[EsTop.i], <<EsTop.i>>)
       IN  /\ heap' = e.heap
           /\ es_stack' = Append(es_stack, e.frame)
    /\ UNCHANGED <<thvars, es_page, es_pc, page_data, es_origin, es_logged,
                   es_result>>

\* Line 359: the templates of the heading are done; the next level-2 node.
LanguageNext ==
    /\ InLanguageLoop
    /\ EsTop.j > Len(Level2Nodes[EsTop.i].templates)
    /\ es_stack' = EsSetTop([EsTop EXCEPT !.i = @ + 1, !.j = 1])
    /\ UNCHANGED <<thvars, es_page, es_pc, heap, page_data, es_origin,
                   es_logged, es_result>>

\* Line 380: the entries of page_data are dumped and returned.
ParsePageReturn ==
    /\ es_pc = "run"
    /\ EsTop.f = "page"
    /\ EsTop.i > Len(Level2Nodes)
    /\ es_pc' = "done"
    /\ es_result' = [k \in 1..Len(page_data) |-> heap[page_data[k]]]
    /\ es_stack' = <<>>
    /\ UNCHANGED <<thvars, es_page, heap, page_data, es_origin, es_logged>>

\* In the loop of line 71, at a node that is no section of the next level.
InPre ==
    /\ es_pc = "run"
    /\ EsTop.f = "entries"
    /\ EsTop.ph = "pre"
    /\ EsTop.i <= Len(NotSubLevel(EsTop.node))

not_sub_level_node == NotSubLevel(EsTop.node)[EsTop.i]

\* Lines 72-76.
IsPronGraf(node) == node.kind = "TEMPLATE" /\ node.name = <<"p","r","o","n","-","g","r","a","f">>

\* Lines 81-85.
IsAudioList(node) == node.kind = "LIST" /\ node.name = <<":","*">>

\* Lines 72-80: pron-graf is processed into base_data_copy.
PronGraf ==
    /\ InPre
    /\ IsPronGraf(not_sub_level_node)
    /\ heap' = IF es_page.config.capture_pronunciation
               THEN [heap EXCEPT ![EsTop.copy] =
                        process_pron_graf_template(@, not_sub_level_node)]
               ELSE heap
    /\ es_stack' = EsNextI
    /\ UNCHANGED <<thvars, es_page, es_pc, page_data, es_origin, es_logged,
                   es_result>>

\* Lines 81-94: the audio templates of a ":*" list are processed into
\* base_data_copy.
AudioList ==
    /\ InPre
    /\ ~IsPronGraf(not_sub_level_node)
    /\ IsAudioList(not_sub_level_node)
    /\ heap' = IF es_page.config.capture_pronunciation
               THEN [heap EXCEPT ![EsTop.copy] =
                        ProcessAudioTemplates(@,
                            FindChildRecursively(not_sub_level_node.children,
                                                 "TEMPLATE"))]
               ELSE heap
    /\ es_stack' = EsNextI
    /\ UNCHANGED <<thvars, es_page, es_pc, page_data, es_origin, es_logged,
                   es_result>>

\* Lines 96-97: any other node.
UnexpectedNode ==
    /\ InPre
    /\ ~IsPronGraf(not_sub_level_node)
    /\ ~IsAudioList(not_sub_level_node)
    /\ es_stack' = EsSetTop([EsTop EXCEPT !.i = @ + 1, !.unexpected = TRUE])
    /\ UNCHANGED <<thvars, es_page, es_pc, heap, page_data, es_origin,
                   es_logged, es_result>>

\* Lines 99-105: the loop of line 71 is over; the unexpected nodes are
\* logged and the loop over the sections of the next level begins.
UnexpectedNodesLogged ==
    /\ es_pc = "run"
    /\ EsTop.f = "entries"
    /\ EsTop.ph = "pre"
    /\ EsTop.i > Len(NotSubLevel(EsTop.node))
    /\ es_logged' = es_logged \cup
                      (IF EsTop.unexpected THEN {"UNEXPECTED NODES"} ELSE {})
    /\ es_stack' = EsSetTop([EsTop EXCEPT !.ph = "sub", !.i = 1])
    /\ UNCHANGED <<thvars, es_page, es_pc, heap, page_data, es_origin,
                   es_result>>

\* ---------------------------------------------------------- parse_section

\* In the loop of line 105: parse_section is called for a section.
InSub ==
    /\ es_pc = "run"
    /\ EsTop.f = "entries"
    /\ EsTop.ph = "sub"
    /\ EsTop.i <= Len(SubLevel(EsTop.node))

sub_level_node == SubLevel(EsTop.node)[EsTop.i]

\* Line 127: clean_node is given base_data, which is the base_data_copy of
\* the caller, and adds the categories of the heading to it.
TitleCleaned ==
    [heap EXCEPT ![EsTop.copy] = CollectCategories(@, sub_level_node)]

\* Lines 135-136: a numbered etymology section; parse_entries is called
\* for it with the base_data of parse_section.
SectionNumberedEtymology ==
    /\ InSub
    /\ SectionBranch(sub_level_node) = "numbered"
    /\ LET e == EnterEntries(TitleCleaned, EsTop.copy, sub_level_node,
                             Append(EsTop.path, EsTop.i))
       IN  /\ heap' = e.heap
           /\ es_stack' = Append(es_stack, e.frame)
    /\ UNCHANGED <<thvars, es_page, es_pc, page_data, es_origin, es_logged,
                   es_result>>

\* Lines 138-139.
SectionIgnored ==
    /\ InSub
    /\ SectionBranch(sub_level_node) = "ignored"
    /\ heap' = TitleCleaned
    /\ es_stack' = EsNextI
    /\ UNCHANGED <<thvars, es_page, es_pc, page_data, es_origin, es_logged,
                   es_result>>

\* Lines 146-148: the key POS_SUBTITLES is read with.
PosKey(level_node) ==
    IF pos_template_name_of(level_node) # <<>>
    THEN pos_template_name_of(level_node)
    ELSE section_title_of(level_node)

\* Lines 141-158: a part-of-speech section.  A copy of base_data is
\* appended to page_data, given pos and pos_title, and the block is
\* processed into it.  The lookup of lines 146-148 raises KeyError for a
\* heading whose template is no part of speech while its title is one.
SectionPos ==
    /\ InSub
    /\ SectionBranch(sub_level_node) = "pos"
    /\ IF InTable(EsPosSubtitles, PosKey(sub_level_node))
       THEN LET c == deepcopy(TitleCleaned, EsTop.copy)
                entry == [c.heap[c.ref] EXCEPT
                             !.pos = Lookup(EsPosSubtitles, PosKey(sub_level_node)),
                             !.pos_title = section_title_of(sub_level_node)]
                r == process_pos_block(entry, sub_level_node)
            IN  /\ heap' = [c.heap EXCEPT ![c.ref] = r.entry]
                /\ page_data' = Append(page_data, c.ref)
                /\ es_origin' = Append(es_origin, EsTop.path)
                /\ es_logged' = es_logged \cup r.logged
                /\ es_stack' = EsNextI
                /\ UNCHANGED <<es_pc, es_result>>
       ELSE /\ heap' = TitleCleaned
            /\ es_pc' = "raised"
            /\ es_result' = <<"KeyError">>
            /\ UNCHANGED <<page_data, es_origin, es_logged, es_stack>>
    /\ UNCHANGED <<thvars, es_page>>

\* Lines 160-162: an etymology section is processed into base_data.
SectionEtymology ==
    /\ InSub
    /\ SectionBranch(sub_level_node) = "etymology"
    /\ heap' = IF es_page.config.capture_etymologies
               THEN [TitleCleaned EXCEPT ![EsTop.copy] =
                        process_etymology_block(@, sub_level_node)]
               ELSE TitleCleaned
    /\ es_stack' = EsNextI
    /\ UNCHANGED <<thvars, es_page, es_pc, page_data, es_origin, es_logged,
                   es_result>>

\* Lines 164-170: the t+ templates of a translation section are extracted
\* into page_data[-1] when page_data has an element.
SectionTranslations ==
    /\ InSub
    /\ SectionBranch(sub_level_node) = "translations"
    /\ heap' = IF es_page.config.capture_translations /\ Len(page_data) > 0
               THEN [TitleCleaned EXCEPT ![page_data[Len(page_data)]] =
                        ExtractTranslations(@,
                            FindChildRecursively(sub_level_node.children,
                                                 "TEMPLATE"))]
               ELSE TitleCleaned
    /\ es_stack' = EsNextI
    /\ UNCHANGED <<thvars, es_page, es_pc, page_data, es_origin, es_logged,
                   es_result>>

\* Lines 172-175: a linkage section.  page_data[-1] of line 175 raises
\* IndexError when page_data is empty; else the words of the section are
\* extracted into the last element of page_data.
SectionLinkage ==
    /\ InSub
    /\ SectionBranch(sub_level_node) = "linkage"
    /\ IF Len(page_data) > 0
       THEN /\ heap' = [TitleCleaned EXCEPT ![page_data[Len(page_data)]] =
                           extract_linkage(@, sub_level_node,
                               Lookup(EsLinkageSubtitles,
                                      section_title_of(sub_level_node)))]
            /\ es_stack' = EsNextI
            /\ UNCHANGED <<es_pc, es_result>>
       ELSE /\ heap' = TitleCleaned
            /\ es_pc' = "raised"
            /\ es_result' = <<"IndexError">>
            /\ UNCHANGED es_stack
    /\ UNCHANGED <<thvars, es_page, page_data, es_origin, es_logged>>

\* Lines 177-181: any other section is logged.
SectionUnprocessed ==
    /\ InSub
    /\ SectionBranch(sub_level_node) = "other"
    /\ heap' = TitleCleaned
    /\ es_logged' = es_logged \cup {"UNPROCESSED SECTION"}
    /\ es_stack' = EsNextI
    /\ UNCHANGED <<thvars, es_page, es_pc, page_data, es_origin, es_result>>

\* Lines 105-106: the loop is over and parse_entries returns, to the loop
\* of parse_page (line 378) or to parse_section (line 136), which returns
\* to the loop of line 105 of its caller.
EntriesReturn ==
    /\ es_pc = "run"
    /\ EsTop.f = "entries"
    /\ EsTop.ph = "sub"
    /\ EsTop.i > Len(SubLevel(EsTop.node))
    /\ LET caller == es_stack[Len(es_stack) - 1]
           rest == SubSeq(es_stack, 1, Len(es_stack) - 2)
       IN  es_stack' = IF caller.f = "page"
                       THEN Append(rest, [caller EXCEPT !.j = @ + 1])
                       ELSE Append(rest, [caller EXCEPT !.i = @ + 1])
    /\ UNCHANGED <<thvars, es_page, es_pc, heap, page_data, es_origin,
                   es_logged, es_result>>

NextEs ==
    \/ ParsePage
    \/ LanguageSkip
    \/ LanguageEntries
    \/ LanguageNext
    \/ ParsePageReturn
    \/ PronGraf
    \/ AudioList
    \/ UnexpectedNode
    \/ UnexpectedNodesLogged
    \/ SectionNumberedEtymology
    \/ SectionIgnored
    \/ SectionPos
    \/ SectionEtymology
    \/ SectionTranslations
    \/ SectionLinkage
    \/ SectionUnprocessed
    \/ EntriesReturn

\* ------------------------------------------------ the pages of parse_page

\* The largest number of nodes below the heading of a language.
MaxEsParts == 3

\* wxr.config: what is captured (<<>> for capture_language_codes = None).
EsConfig(pron, etym, trans, codes) ==
    [capture_pronunciation |-> pron, capture_etymologies |-> etym,
     capture_translations |-> trans, capture_language_codes |-> codes]

CaptureAll == EsConfig(TRUE, TRUE, TRUE, <<>>)

EsPage(title, config, tree) == [title |-> title, config |-> config, tree |-> tree]

\* == {{lengua|code}} ==
EsLanguage(code, name, children) ==
    EsNode("LEVEL2", <<>>, "", "", <<>>, <<>>,
           <<EsNode("TEMPLATE", <<"l","e","n","g","u","a">>, code, name, <<code>>, <<>>, <<>>, <<>>)>>,
           children)

PronGrafNode(ipa) == EsTemplate(<<"p","r","o","n","-","g","r","a","f">>, "", ipa)

AudioListNode(file) ==
    EsList(<<":","*">>, "",
           <<EsNode("LIST_ITEM", <<>>, "", "", <<>>, <<>>, <<>>,
                    <<EsStr("Audio"), EsTemplate(<<"a","u","d","i","o">>, "", file),
                      EsTemplate(<<"c","l","e","a","r">>, "", "")>>)>>)

PosSection(kind) ==
    EsLevel(kind, <<"S","u","s","t","a","n","t","i","v","o"," ","m","a","s","c","u","l","i","n","o">>, <<<<"s","u","s","t","a","n","t","i","v","o"," ","m","a","s","c","u","l","i","n","o">>>>, <<>>, "",
            <<EsList(<<";">>, "g1", <<>>)>>)

VerbSection(kind) ==
    EsLevel(kind, <<"V","e","r","b","o">>, <<>>, <<>>, "",
            <<EsStr(""), EsCategoryLink("c1"), EsStr("y"),
              EsList(<<";">>, "g2", <<>>), EsStr("x")>>)

EtymologySection(kind, text) ==
    EsLevel(kind, <<"E","t","i","m","o","l","o","g","IACUTE","a">>, <<>>, <<>>, text, <<>>)

SynonymsSection(kind, w) ==
    EsLevel(kind, <<"S","i","n","OACUTE","n","i","m","o","s">>, <<>>, <<>>, "",
            <<EsList(<<"*">>, "", <<EsLink(w)>>), EsTemplate(<<"l">>, "", "w2"),
              EsLink(""), EsTemplate(<<"c","l","e","a","r">>, "", "")>>)

TranslationsSection(kind) ==
    EsLevel(kind, <<"T","r","a","d","u","c","c","i","o","n","e","s">>, <<>>, <<>>, "",
            <<EsTemplate(<<"t","+">>, "en", "water"), EsTemplate(<<"c","l","e","a","r">>, "", "")>>)

IgnoredSection(kind) ==
    EsLevel(kind, <<"R","e","f","e","r","e","n","c","i","a","s"," ","y"," ","n","o","t","a","s">>, <<>>, <<>>, "", <<>>)

OtherSection(kind) == EsLevel(kind, <<"O","t","r","a">>, <<>>, <<"c2">>, "", <<>>)

\* === Etimología 1 === and === Etimología 2 ===
NumberedSection1 ==
    EsLevel("LEVEL3", <<"E","t","i","m","o","l","o","g","IACUTE","a"," ","1">>, <<>>, <<"c3">>, "",
            <<PronGrafNode("ipa2"), PosSection("LEVEL4"),
              SynonymsSection("LEVEL4", "w3")>>)

NumberedSection2 ==
    EsLevel("LEVEL3", <<"E","t","i","m","o","l","o","g","IACUTE","a"," ","2">>, <<>>, <<>>, "",
            <<EtymologySection("LEVEL4", "e2"), AudioListNode("b.ogg"),
              VerbSection("LEVEL4"), SynonymsSection("LEVEL4", "w4")>>)

\* What stands below the heading of a language.
EsParts ==
    {PronGrafNode("ipa1"), AudioListNode("a.ogg"), EsStr("x"),
     PosSection("LEVEL3"), VerbSection("LEVEL3"),
     EtymologySection("LEVEL3", "e1"), SynonymsSection("LEVEL3", "w1"),
     TranslationsSection("LEVEL3"), IgnoredSection("LEVEL3"),
     OtherSection("LEVEL3"), NumberedSection1, NumberedSection2}

\* Pages of one language.
OneLanguageInputs ==
    { EsPage("agua", CaptureAll, <<EsLanguage("es", "Español", parts)>>) :
        parts \in UNION { [1..n -> EsParts] : n \in 0..MaxEsParts } }

\* What a language of the pages of two languages holds.
EsShortParts(ipa, etymology, w) ==
    {PronGrafNode(ipa), PosSection("LEVEL3"), EtymologySection("LEVEL3", etymology),
     SynonymsSection("LEVEL3", w), TranslationsSection("LEVEL3")}

EsShortBodies(parts) == UNION { [1..n -> parts] : n \in 0..2 }

\* Pages of two languages.
TwoLanguageInputs ==
    { EsPage("agua", CaptureAll,
             <<EsLanguage("es", "Español", a), EsLanguage("en", "Inglés", b)>>) :
        a \in EsShortBodies(EsShortParts("ipa1", "e1", "w1")),
        b \in EsShortBodies(EsShortParts("ipa3", "e3", "w5")) }

\* A page of every kind of node under the settings of what is captured.
ConfigInputs ==
    { EsPage("agua", EsConfig(pron, etym, trans, codes),
             <<EsStr("\n"),
               EsLanguage("en", "Inglés",
                          <<PosSection("LEVEL3"), SynonymsSection("LEVEL3", "w0")>>),
               EsNode("LEVEL2", <<>>, "", "", <<>>, <<"O","t","r","o">>, <<>>, <<>>),
               EsLanguage("es", "Español",
                          <<PronGrafNode("ipa1"), AudioListNode("a.ogg"),
                            EtymologySection("LEVEL3", "e1"),
                            PosSection("LEVEL3"), TranslationsSection("LEVEL3"),
                            SynonymsSection("LEVEL3", "w1")>>)>>) :
        pron \in BOOLEAN, etym \in BOOLEAN, trans \in BOOLEAN,
        codes \in {<<>>, <<{"es"}>>, <<{}>>} }

\* Pages with a heading whose template is no part of speech while its
\* title is one, and with a heading of two templates.
HeadingInputs ==
    { EsPage("agua", CaptureAll, <<EsLanguage("es", "Español", <<s>>)>>) :
        s \in { EsLevel("LEVEL3", <<"V","e","r","b","o">>, <<<<"i","n","f","l","e","c","t",".","e","s">>>>, <<>>, "", <<>>),
                EsLevel("LEVEL3", <<"O","t","r","a">>, <<<<"i","n","f","l","e","c","t",".","e","s">>, <<"v","e","r","b","o">>>>, <<>>, "",
                        <<EsList(<<";">>, "g3", <<>>)>>) } }

EsInputs ==
    OneLanguageInputs \cup TwoLanguageInputs \cup ConfigInputs \cup HeadingInputs

\* extract_thesaurus_page is not running.
ThesaurusIdle ==
    /\ page = [title |-> MainTitle, body |-> NoneStr, tree |-> Root(MainTitle, <<>>)]
    /\ vocab = BaseVocab
    /\ first = NoFirst
    /\ pc = "done"
    /\ cur = Str(<<>>)
    /\ stack = <<>>
    /\ retval = RetNone
    /\ word = NoneStr
    /\ lang = NoneStr
    /\ pos = NoneVal
    /\ sense = NoneStr
    /\ linkage = NoneVal
    /\ subtitle_tags = <<>>
    /\ calls = <<>>
    /\ logged = {}
    /\ emitted = <<>>

\* parse_page is about to be called for a page.
InitEs ==
    /\ ThesaurusIdle
    /\ es_page \in EsInputs
    /\ es_pc = "start"
    /\ es_stack = <<>>
    /\ heap = <<>>
    /\ page_data = <<>>
    /\ es_origin = <<>>
    /\ es_logged = {}
    /\ es_result = <<>>

EsSpec == InitEs /\ [][NextEs]_vars

\* ------------------------------------------------------------ C24, C25

\* The language section a call of parse_entries, or an entry of
\* page_data, is for: the number of its level-2 node.
LanguageOf(path) == path[1]

\* C24: the words of a linkage section are added only to a word entry
\* that a part-of-speech section of the same language section created.
\* When there is none (page_data is empty, or its last entry is of an
\* earlier language section) no entry changes and no error is raised.
C24_LinkageOnlyOwnLanguage ==
    [][SectionLinkage =>
          /\ es_pc' # "raised"
          /\ \A k \in 1..Len(page_data) :
                heap'[page_data[k]] # heap[page_data[k]]
                    => LanguageOf(es_origin[k]) = LanguageOf(EsTop.path)]_vars

\* The section a path of section numbers leads to.
RECURSIVE NodeAt(_)
NodeAt(path) ==
    IF Len(path) = 1 THEN Level2Nodes[path[1]]
    ELSE SubLevel(NodeAt(SubSeq(path, 1, Len(path) - 1)))[path[Len(path)]]

\* The language section and the numbered etymology sections a path leads
\* through.
PathNodes(path) == { NodeAt(SubSeq(path, 1, n)) : n \in 1..Len(path) }

\* What the templates outside the subsections of the sections of a path
\* hold: the pronunciations and the audio files of these sections.
SoundTexts(path) ==
    UNION { { t.text : t \in Range(FindChildRecursively(NotSubLevel(node),
                                                        "TEMPLATE")) } :
              node \in PathNodes(path) }

\* The texts of the etymology sections right below the sections of a path.
EtymologyTexts(path) ==
    UNION { { s.text : s \in { x \in Range(SubLevel(node)) :
                                   SectionBranch(x) = "etymology" } } :
              node \in PathNodes(path) }

\* The pronunciation, audio and etymology of every entry of page_data
\* were collected in the language section, and in the numbered etymology
\* section, the entry was appended for.
OwnDataOnly ==
    \A k \in 1..Len(page_data) :
        LET entry == heap[page_data[k]]
        IN  /\ \A s \in 1..Len(entry.sounds) :
                  /\ entry.sounds[s].ipa \in SoundTexts(es_origin[k]) \cup {""}
                  /\ entry.sounds[s].audio \in SoundTexts(es_origin[k]) \cup {""}
            /\ entry.etymology_text \in EtymologyTexts(es_origin[k]) \cup {NoneVal}

\* Every entry of page_data is an object of its own: no other entry and
\* no base_data or base_data_copy of a running call is the same object.
IndependentCopies ==
    /\ \A j, k \in 1..Len(page_data) : page_data[j] = page_data[k] => j = k
    /\ \A k \in 1..Len(page_data), n \in 1..Len(es_stack) :
          /\ page_data[k] # es_stack[n].base
          /\ page_data[k] # es_stack[n].copy

\* No step changes the base_data a running call of parse_entries was
\* given.
BaseDataKept ==
    \A n \in 1..Len(es_stack) :
        es_stack[n].f = "entries" => heap'[es_stack[n].base] = heap[es_stack[n].base]

====
